---- MODULE Spec2Model ----
(***************************************************************************)
(* Model of the CSV enrichment pipeline of                                 *)
(* backend/lambda/process-csv/src/index.ts: the S3-triggered handler, the   *)
(* per-file pipeline processFile, the price resolver buildPriceMap with     *)
(* the bulk lookup client, the row transformer processRow, and the three    *)
(* DynamoDB-backed stores (job status, price cache, daily usage).           *)
(*                                                                         *)
(* Strings are sequences of one-character strings, money is an integer      *)
(* number of cents, an optional value is a sequence of length 0 or 1.       *)
(***************************************************************************)
EXTENDS Integers, Sequences, FiniteSets, TLC

(***************************************************************************)
(* Bounds of the model: the rows one handler invocation downloads in all,   *)
(* the records of its event, the advances of the clock, and the failures    *)
(* of the stores (DynamoDB, S3, Secrets Manager) during one invocation.     *)
(* BULK_SIZE and PROGRESS_EVERY are the program's 100 (index.ts:61) and 50  *)
(* (index.ts:139) scaled down so that several batches and several progress  *)
(* reports happen within MaxRows rows.                                      *)
(***************************************************************************)
MaxRows == 3
MaxRecords == 2
MaxTicks == 1
MaxFaults == 1
BULK_SIZE == 2
PROGRESS_EVERY == 2

(***************************************************************************)
(* Program constants.                                                       *)
(***************************************************************************)
DAILY_LIMIT == 5000
RATE_LIMIT_DELAY == 1100
RATE_LIMIT_BACKOFF == 2000
DAY_SECONDS == 24 * 60 * 60
CACHE_TTL == 7 * 24 * 60 * 60

(***************************************************************************)
(* Optional values.                                                         *)
(***************************************************************************)
None == <<>>
Some(v) == <<v>>
IsSome(o) == o # <<>>

(***************************************************************************)
(* Strings and numbers.                                                     *)
(***************************************************************************)
Digit == {"0", "1", "2", "3", "4", "5", "6", "7", "8", "9"}
Whitespace == {" "}

DigitVal(c) ==
  CASE c = "0" -> 0 [] c = "1" -> 1 [] c = "2" -> 2 [] c = "3" -> 3
    [] c = "4" -> 4 [] c = "5" -> 5 [] c = "6" -> 6 [] c = "7" -> 7
    [] c = "8" -> 8 [] c = "9" -> 9

DigitChar(d) ==
  CASE d = 0 -> "0" [] d = 1 -> "1" [] d = 2 -> "2" [] d = 3 -> "3"
    [] d = 4 -> "4" [] d = 5 -> "5" [] d = 6 -> "6" [] d = 7 -> "7"
    [] d = 8 -> "8" [] d = 9 -> "9"

\* The longest run of digits of s that starts at position i.
RECURSIVE DigitsFrom(_, _)
DigitsFrom(s, i) ==
  IF i <= Len(s) /\ s[i] \in Digit
  THEN <<s[i]>> \o DigitsFrom(s, i + 1)
  ELSE <<>>

RECURSIVE NumVal(_)
NumVal(d) ==
  IF d = <<>> THEN 0
  ELSE 10 * NumVal(SubSeq(d, 1, Len(d) - 1)) + DigitVal(d[Len(d)])

RECURSIVE NatToStr(_)
NatToStr(n) ==
  IF n < 10 THEN <<DigitChar(n)>>
  ELSE NatToStr(n \div 10) \o <<DigitChar(n % 10)>>

RECURSIVE SkipSpace(_, _)
SkipSpace(s, i) ==
  IF i <= Len(s) /\ s[i] \in Whitespace THEN SkipSpace(s, i + 1) ELSE i

\* A JavaScript number: NaN, an infinity (c is its sign), or a value in
\* cents.
NaN == [nan |-> TRUE, inf |-> FALSE, c |-> 0]
Num(c) == [nan |-> FALSE, inf |-> FALSE, c |-> c]
Infinity(neg) == [nan |-> FALSE, inf |-> TRUE, c |-> IF neg THEN 0 - 1 ELSE 1]
Truthy(n) == ~n.nan /\ (n.inf \/ n.c # 0)
InfinityText == <<"I", "n", "f", "i", "n", "i", "t", "y">>

\* parseFloat: the longest numeric prefix (sign, then Infinity or digits, one
\* point, digits); NaN when there is none.  Fraction digits beyond the second
\* are dropped.
ParseFloat(s) ==
  LET start == SkipSpace(s, 1)
      signed == start <= Len(s) /\ s[start] \in {"-", "+"}
      neg == start <= Len(s) /\ s[start] = "-"
      i1 == IF signed THEN start + 1 ELSE start
      ip == DigitsFrom(s, i1)
      i2 == i1 + Len(ip)
      fp == IF i2 <= Len(s) /\ s[i2] = "." THEN DigitsFrom(s, i2 + 1) ELSE <<>>
      f2 == SubSeq(fp \o <<"0", "0">>, 1, 2)
      mag == NumVal(ip) * 100 + NumVal(f2)
      isInf == i1 + 7 <= Len(s) /\ SubSeq(s, i1, i1 + 7) = InfinityText
  IN  IF isInf THEN Infinity(neg)
      ELSE IF ip = <<>> /\ fp = <<>> THEN NaN
      ELSE Num(IF neg THEN 0 - mag ELSE mag)

\* Number.prototype.toFixed(2) of an infinity.
InfinityToFixed(n) == (IF n.c < 0 THEN <<"-">> ELSE <<>>) \o InfinityText

\* Number.prototype.toFixed(2) of a value in cents.
ToFixed2(c) ==
  LET mag == IF c < 0 THEN 0 - c ELSE c
      frac == mag % 100
  IN  (IF c < 0 THEN <<"-">> ELSE <<>>)
      \o NatToStr(mag \div 100) \o <<".">>
      \o <<DigitChar(frac \div 10), DigitChar(frac % 10)>>

\* Math.ceil of a value in cents, in cents.
MathCeil(c) == (0 - ((0 - c) \div 100)) * 100

\* finalPrice += settings.priceAdjustment (index.ts:327-329) is an IEEE-754
\* double addition of two decimal amounts.  Its result is within a hair of
\* the exact sum in cents c; above says that the double lies above c.  Of
\* the prices and adjustments that occur in this model only
\* 16.01 + (-6.01) = 10.000000000000002 does; every other sum prints and
\* rounds as the exact one.
SumsAbove == { <<1601, 0 - 601>> }
NumberAdd(a, b) == [c |-> a + b, above |-> <<a, b>> \in SumsAbove]
Exact(c) == [c |-> c, above |-> FALSE]
\* Math.ceil of such a sum, in cents.
CeilNumber(n) == IF n.above /\ n.c % 100 = 0 THEN n.c + 100 ELSE MathCeil(n.c)

\* isbn.replace(/[-\s]/g, '')
CleanIsbn(s) == SelectSeq(s, LAMBDA ch : ch \notin ({"-"} \cup Whitespace))

\* msrp.toString().replace(/[^0-9.]/g, '')
StripNonNumeric(s) == SelectSeq(s, LAMBDA ch : ch \in (Digit \cup {"."}))

(***************************************************************************)
(* The inputs the model draws from: ISBNs as the rows carry them, rows,     *)
(* settings, and the books the pricing provider knows.                      *)
(***************************************************************************)
A13 == <<"9", "7", "8", "0", "0", "0", "0", "0", "0", "0", "0", "1", "7">>
A13h == <<"9", "7", "8", "-", "0", "0", "0", "0", "0", "0", "0", "0", "1", "7">>
A10 == <<"0", "0", "0", "0", "0", "0", "0", "0", "1", "X">>
B13 == <<"9", "7", "8", "0", "0", "0", "0", "0", "0", "0", "0", "2", "4">>
B10 == <<"0", "0", "0", "0", "0", "0", "0", "0", "2", "8">>
ShortIsbn == <<"1", "2", "-", "3", "4">>
EmptyStr == <<>>

Row(isbn, basePrice) == [isbn |-> isbn, basePrice |-> basePrice]

RowPool ==
  { Row(A13h, <<"1", "2", ".", "5", "0">>),
    Row(A10, EmptyStr),
    Row(B13, <<"a", "b", "c">>),
    Row(EmptyStr, <<"9", ".", "9", "9">>),
    Row(ShortIsbn, <<"5">>) }

\* Every file of at most n rows.
FilePool(n) == UNION { [1..k -> RowPool] : k \in 0..n }

\* ProcessingSettings; an item written without settings reads back as
\* undefined (defined = FALSE).
Settings(rounding, hasAdj, adj) ==
  [defined |-> TRUE, priceRounding |-> rounding,
   hasAdjustment |-> hasAdj, priceAdjustment |-> adj]
NoSettings ==
  [defined |-> FALSE, priceRounding |-> FALSE,
   hasAdjustment |-> FALSE, priceAdjustment |-> 0]
AdjustmentPool == {0, 0 - 500, 84, 0 - 601}
SettingsPool ==
  { Settings(r, FALSE, 0) : r \in BOOLEAN }
  \cup { Settings(r, TRUE, a) : r \in BOOLEAN, a \in AdjustmentPool }
\* The settings of the job created by the upload endpoint.
JobSettings == Settings(TRUE, TRUE, 0 - 500)

\* The provider's books: an ISBN-10, an ISBN-13, and the msrp it reports.
Book(isbn, isbn13, msrp) == [isbn |-> isbn, isbn13 |-> isbn13, msrp |-> msrp]
CatalogIds == << [isbn |-> A10, isbn13 |-> A13], [isbn |-> B10, isbn13 |-> B13] >>
MsrpPool == { <<"$", "2", "4", ".", "1", "6">>, <<"N", "/", "A">> }

JobIds == {"j1", "j2"}
FileName == "catalog.csv"
\* An object key uploads/{jobId}/filename.csv, split at "/".
KeyOf(j) == <<"uploads", j, FileName>>
Keys == { KeyOf(j) : j \in JobIds }

(***************************************************************************)
(* extractPriceFromBook (index.ts:279-291): the price in cents, or null.    *)
(***************************************************************************)
extractPriceFromBook(book) ==
  IF book.msrp # EmptyStr
  THEN LET price == ParseFloat(StripNonNumeric(book.msrp))
       IN  IF ~price.nan /\ price.c > 0 THEN Some(price.c) ELSE None
  ELSE None

(***************************************************************************)
(* The PriceMap: a function from its keys to prices in cents.               *)
(***************************************************************************)
EmptyMap == [k \in {} |-> 0]
MapSet(m, k, v) == [x \in (DOMAIN m) \cup {k} |-> IF x = k THEN v ELSE m[x]]
MapHas(m, k) == k \in DOMAIN m

(***************************************************************************)
(* processRow (index.ts:293-341).  threw = TRUE stands for the TypeError    *)
(* of reading a property of undefined settings.                             *)
(***************************************************************************)
Processed(row, calculatedPrice, priceSource, processingStatus) ==
  [isbn |-> row.isbn, basePrice |-> row.basePrice,
   calculatedPrice |-> calculatedPrice, priceSource |-> priceSource,
   processingStatus |-> processingStatus]

\* A candidate that prefers the row's own base price to the PriceMap.
Candidate_BaseFirst(row, isbn, priceMap) ==
  IF row.basePrice # EmptyStr /\ Truthy(ParseFloat(row.basePrice))
  THEN [price |-> ParseFloat(row.basePrice), priceSource |-> "original"]
  ELSE IF MapHas(priceMap, isbn) /\ priceMap[isbn] # 0
  THEN [price |-> Num(priceMap[isbn]), priceSource |-> "isbndb_bulk"]
  ELSE [price |-> NaN, priceSource |-> "original"]

\* The candidate price and its source (index.ts:305-313): the PriceMap's
\* price when it is truthy, else the parsed base price when there is one.
Candidate(row, isbn, priceMap) ==
  LET mapped == MapHas(priceMap, isbn) /\ priceMap[isbn] # 0
      fallback == ~mapped /\ row.basePrice # EmptyStr
  IN  [price |-> IF mapped THEN Num(priceMap[isbn])
                 ELSE IF fallback THEN ParseFloat(row.basePrice)
                 ELSE NaN,
       priceSource |-> IF mapped THEN "isbndb_bulk" ELSE "original"]

processRow(row, settings, priceMap) ==
  LET isbn == CleanIsbn(row.isbn)
      candidate == Candidate(row, isbn, priceMap)
      price == candidate.price
      priceSource == candidate.priceSource
      adjusted == IF settings.hasAdjustment /\ settings.priceAdjustment # 0
                  THEN NumberAdd(price.c, settings.priceAdjustment)
                  ELSE Exact(price.c)
      finalPrice == IF settings.priceRounding THEN CeilNumber(adjusted) ELSE adjusted.c
  IN  IF isbn = EmptyStr
      THEN [threw |-> FALSE,
            row |-> Processed(row, row.basePrice, "original", "no_isbn")]
      ELSE IF ~Truthy(price)
      THEN [threw |-> FALSE,
            row |-> Processed(row, row.basePrice, "original", "no_price_found")]
      ELSE IF ~settings.defined
      THEN [threw |-> TRUE, row |-> Processed(row, EmptyStr, "", "")]
      ELSE IF price.inf
      THEN \* an infinity stays one under += and Math.ceil
           [threw |-> FALSE,
            row |-> Processed(row, InfinityToFixed(price), priceSource, "success")]
      ELSE [threw |-> FALSE,
            row |-> Processed(row, ToFixed2(finalPrice), priceSource, "success")]

\* A catch block that emits the row without marking it.
ErrorRow_Unmarked(row) == Processed(row, row.basePrice, "original", "no_price_found")

\* The row pushed by the catch block of the row loop (index.ts:145-154).
ErrorRow(row) == Processed(row, row.basePrice, "original", "error")

(***************************************************************************)
(* uniqueIsbns (index.ts:102-106): cleaned, at least 10 characters,         *)
(* deduplicated in first-occurrence order.                                  *)
(***************************************************************************)
RECURSIVE Dedupe(_)
Dedupe(s) ==
  IF s = <<>> THEN <<>>
  ELSE LET init == Dedupe(SubSeq(s, 1, Len(s) - 1))
           last == s[Len(s)]
       IN  IF \E i \in 1..Len(init) : init[i] = last THEN init
           ELSE Append(init, last)

AllIsbns(rows) ==
  SelectSeq([i \in 1..Len(rows) |-> CleanIsbn(rows[i].isbn)],
            LAMBDA isbn : isbn # EmptyStr /\ Len(isbn) >= 10)

UniqueIsbns(rows) == Dedupe(AllIsbns(rows))

\* Math.ceil(n / BULK_SIZE)
EstimatedCalls(n) == (n + BULK_SIZE - 1) \div BULK_SIZE

\* A split that puts every ISBN in one batch.
Batches_OneBatch(isbns) == IF isbns = <<>> THEN <<>> ELSE <<isbns>>

\* The batches of buildPriceMap (index.ts:195-199).
RECURSIVE Batches(_)
Batches(isbns) ==
  IF isbns = <<>> THEN <<>>
  ELSE IF Len(isbns) <= BULK_SIZE THEN <<isbns>>
  ELSE <<SubSeq(isbns, 1, BULK_SIZE)>>
       \o Batches(SubSeq(isbns, BULK_SIZE + 1, Len(isbns)))

Range(s) == { s[i] : i \in 1..Len(s) }

(***************************************************************************)
(* The job status table.  An item that does not exist has exists = FALSE;   *)
(* UpdateItem creates the item when it is missing (DynamoDB upsert).        *)
(***************************************************************************)
NoItem ==
  [exists |-> FALSE, status |-> "", settings |-> NoSettings, fileName |-> "",
   totalRows |-> None, processedRows |-> None, errorCount |-> None,
   outputFileKey |-> None, errorMessage |-> ""]

\* createJobRecord of the upload endpoint (unnamed/part_001:159-180).
PendingItem(settings) ==
  [NoItem EXCEPT !.exists = TRUE, !.status = "PENDING",
                 !.settings = settings, !.fileName = FileName]

NoUpdates ==
  [totalRows |-> None, processedRows |-> None, errorCount |-> None,
   outputFileKey |-> None, errorMessage |-> ""]

\* The item after updateJobStatus's UpdateExpression (index.ts:447-470):
\* status always; totalRows, outputFileKey and errorMessage when truthy;
\* processedRows and errorCount when not undefined.
UpdatedItem(item, status, updates) ==
  [item EXCEPT
     !.exists = TRUE,
     !.status = status,
     !.totalRows = IF IsSome(updates.totalRows) /\ updates.totalRows[1] # 0
                   THEN updates.totalRows ELSE @,
     !.processedRows = IF IsSome(updates.processedRows)
                       THEN updates.processedRows ELSE @,
     !.errorCount = IF IsSome(updates.errorCount) THEN updates.errorCount ELSE @,
     !.outputFileKey = IF IsSome(updates.outputFileKey)
                       THEN updates.outputFileKey ELSE @,
     !.errorMessage = IF updates.errorMessage # ""
                      THEN updates.errorMessage ELSE @]

\* What one updateJobStatus call sent: the status, whether the write took
\* effect, and which optional attributes its expression set.
WriteRecord(status, ok, updates) ==
  [status |-> status, ok |-> ok,
   outputFileKey |-> IsSome(updates.outputFileKey),
   errorMessage |-> updates.errorMessage # ""]

Terminal == {"COMPLETED", "FAILED"}

(***************************************************************************)
(* The price cache and the daily usage table.                               *)
(***************************************************************************)
CacheKeys == {A13, A13h, A10, B13, B10}
CacheEntry(price, ttl) == [price |-> price, ttl |-> ttl]
EmptyCache == [k \in CacheKeys |-> None]

\* Caches left by earlier jobs: entries with positive prices, alive or expired.
InitCaches ==
  { EmptyCache,
    [EmptyCache EXCEPT ![A13] = Some(CacheEntry(1999, 3 * DAY_SECONDS)),
                       ![B13] = Some(CacheEntry(1550, 0))] }

\* The item's price when the entry exists and has not expired (index.ts:350-356).
ValidEntry(entry, t) == IsSome(entry) /\ entry[1].ttl > t

Days == 0..(7 * MaxTicks)
Day(t) == t \div DAY_SECONDS
\* callCount of the day's item, 0 when there is none (index.ts:395-408).
CallCount(l, d) == IF IsSome(l[d]) THEN l[d][1] ELSE 0
\* ADD callCount :inc (index.ts:415-427)
LedgerAdd(l, d) == [l EXCEPT ![d] = Some(CallCount(l, d) + 1)]

InitUsages == { None, Some(DAILY_LIMIT - 1) }

(***************************************************************************)
(* The provider's answers to a batch: any of the books that match a         *)
(* requested identifier, each with one of the msrp values.                  *)
(***************************************************************************)
Matching(batch) ==
  { i \in 1..Len(CatalogIds) :
      CatalogIds[i].isbn \in Range(batch) \/ CatalogIds[i].isbn13 \in Range(batch) }

RECURSIVE BooksOf(_, _)
BooksOf(f, i) ==
  IF i > Len(CatalogIds) THEN <<>>
  ELSE (IF i \in DOMAIN f /\ IsSome(f[i])
        THEN <<Book(CatalogIds[i].isbn, CatalogIds[i].isbn13, f[i][1])>>
        ELSE <<>>) \o BooksOf(f, i + 1)

Responses(batch) ==
  { BooksOf(f, 1) :
      f \in [Matching(batch) -> {None} \cup { Some(m) : m \in MsrpPool }] }

\* response.status of the bulk call; NetworkError is fetch itself rejecting.
StatusCodes == {"200", "404", "429", "401", "500"}
NetworkError == "network"

ErrorMessages == {"Service error", ""}

(***************************************************************************)
(* State.                                                                   *)
(***************************************************************************)
Procs == {"h1", "h2"}

VARIABLES
  jobs,      \* JOB_STATUS_TABLE: job id -> item
  cache,     \* PRICE_CACHE_TABLE: isbn -> optional entry
  ledger,    \* DAILY_USAGE_TABLE: day -> optional callCount
  outputs,   \* OUTPUT_BUCKET: output key -> optional rows
  now,       \* Date.now() in seconds
  ticks,     \* how often the clock has advanced
  proc,      \* per handler invocation: the locals of handler and processFile
  limits     \* what this behaviour may draw: records, rows, faults, ticks

vars == <<jobs, cache, ledger, outputs, now, ticks, proc, limits>>

OutKeys == { <<"processed", j, f>> : j \in JobIds, f \in {FileName, "undefined"} }
\* `processed/${jobId}/${jobStatus.fileName}` (index.ts:159)
OutputKey(jobId, item) ==
  <<"processed", jobId, IF item.fileName = "" THEN "undefined" ELSE item.fileName>>

NoPrev == [has |-> FALSE, isbns |-> <<>>, priceMap |-> EmptyMap, ticks |-> 0,
           calls |-> 0, jobId |-> "", cached |-> {}, failed |-> FALSE,
           requested |-> {}]

\* The locals at the start of one record's processFile; Records, idx and the
\* snapshot of the previous resolution are kept across records.
FreshLocals(records, idx, prev, rowsRead, faults) ==
  [pc |-> "handler", Records |-> records, idx |-> idx,
   rowsRead |-> rowsRead, faults |-> faults,
   jobId |-> "", jobStatus |-> NoItem, rows |-> <<>>, uniqueIsbns |-> <<>>,
   today |-> 0, dailyUsage |-> 0, estimatedCalls |-> 0,
   priceMap |-> EmptyMap, ci |-> 1, uncachedIsbns |-> <<>>,
   batches |-> <<>>, bi |-> 1, books |-> <<>>, bk |-> 1,
   processedRows |-> <<>>, processedCount |-> 0, errorCount |-> 0, ri |-> 1,
   error |-> "",
   \* history of this run, for stating properties
   probes |-> <<>>, calls |-> <<>>, evts |-> <<>>, cacheWrites |-> 0, cached |-> {},
   usageBefore |-> 0, startTicks |-> 0, writes |-> <<>>, resolved |-> FALSE, uploaded |-> FALSE,
   prev |-> prev]

\* The events of n records (a shorter event is a prefix of one).
Events(n) == [1..n -> Keys]

Limits(records, rows, faults, clock) ==
  [records |-> records, rows |-> rows, faults |-> faults, ticks |-> clock]

\* A behaviour explores one dimension to its bound and keeps the others
\* small: the rows of one file, the failures, the clock, the records; and
\* two records together with one failure or one advance of the clock.
Scenarios ==
  { Limits(1, MaxRows, 0, 0),
    Limits(1, 2, MaxFaults, 0),
    Limits(1, 2, 0, MaxTicks),
    Limits(MaxRecords, 2, 0, 0),
    Limits(2, 1, 1, 0),
    Limits(2, 2, 0, 1) }

Init ==
  /\ limits \in Scenarios
  /\ jobs = [j \in JobIds |-> IF j = "j1" THEN PendingItem(JobSettings) ELSE NoItem]
  /\ cache \in InitCaches
  /\ \E u \in InitUsages : ledger = [d \in Days |-> IF d = 0 THEN u ELSE None]
  /\ outputs = [k \in OutKeys |-> None]
  /\ now = 0
  /\ ticks = 0
  /\ \E e \in Events(limits.records) :
       proc = [p \in Procs |-> IF p = "h1" THEN FreshLocals(e, 1, NoPrev, 0, 0)
                               ELSE FreshLocals(<<>>, 1, NoPrev, 0, 0)]

Set(p, r) == proc' = [proc EXCEPT ![p] = r]

\* The outcomes of a store operation: it succeeds, or (while the invocation
\* has failures left) it fails.
Outcomes(l) == IF l.faults < limits.faults THEN BOOLEAN ELSE {TRUE}
Fault(l, ok) == IF ok THEN l ELSE [l EXCEPT !.faults = @ + 1]

\* updateJobStatus never throws: a failed write is logged (index.ts:471-473).
JobsAfterUpdate(jobId, status, updates, ok) ==
  IF ok THEN [jobs EXCEPT ![jobId] = UpdatedItem(@, status, updates)] ELSE jobs

\* The catch block of the handler runs next with this message.
Throw(l, message) == [l EXCEPT !.pc = "catch", !.error = message]

(***************************************************************************)
(* handler (index.ts:64-83): the loop over event.Records.                   *)
(***************************************************************************)
HandlerNext(p) ==
  LET l == proc[p] IN
  /\ l.pc = "handler"
  /\ l.idx <= Len(l.Records)
  /\ Set(p, [FreshLocals(l.Records, l.idx,
                         IF l.resolved
                         THEN [has |-> TRUE, isbns |-> l.uniqueIsbns,
                               priceMap |-> l.priceMap, ticks |-> l.startTicks,
                               calls |-> Len(l.calls), jobId |-> l.jobId,
                               cached |-> l.cached, failed |-> ~l.uploaded,
                               requested |-> UNION { Range(l.calls[k].isbns) :
                                                       k \in 1..Len(l.calls) }]
                         ELSE l.prev,
                         l.rowsRead, l.faults)
             EXCEPT !.pc = "getJobStatus",
                    \* key.split('/')[1]
                    !.jobId = l.Records[l.idx][2]])
  /\ UNCHANGED <<jobs, cache, ledger, outputs, now, ticks, limits>>

(***************************************************************************)
(* processFile (index.ts:85-172), one action per awaited call.              *)
(***************************************************************************)
\* getJobStatus (index.ts:433-445): null when the item is missing or the
\* read fails.
GetJobStatus(p) ==
  LET l == proc[p] IN
  /\ l.pc = "getJobStatus"
  /\ \E ok \in Outcomes(l) :
       IF ok /\ jobs[l.jobId].exists
       THEN Set(p, [l EXCEPT !.pc = "setProcessing", !.jobStatus = jobs[l.jobId]])
       ELSE Set(p, Throw(Fault(l, ok), "Job not found"))
  /\ UNCHANGED <<jobs, cache, ledger, outputs, now, ticks, limits>>

SetProcessing(p) ==
  LET l == proc[p] IN
  /\ l.pc = "setProcessing"
  /\ \E ok \in Outcomes(l) :
       /\ jobs' = JobsAfterUpdate(l.jobId, "PROCESSING", NoUpdates, ok)
       /\ Set(p, [Fault(l, ok) EXCEPT !.pc = "getApiKey",
                           !.writes = Append(@, WriteRecord("PROCESSING", ok, NoUpdates))])
  /\ UNCHANGED <<cache, ledger, outputs, now, ticks, limits>>

\* getIsbndbApiKey (index.ts:476-487) throws when the secret cannot be read.
GetIsbndbApiKey(p) ==
  LET l == proc[p] IN
  /\ l.pc = "getApiKey"
  /\ \/ Set(p, [l EXCEPT !.pc = "download"])
     \/ /\ FALSE \in Outcomes(l)
        /\ \E m \in ErrorMessages : Set(p, Throw(Fault(l, FALSE), m))
  /\ UNCHANGED <<jobs, cache, ledger, outputs, now, ticks, limits>>

\* downloadFile and parseCSV (index.ts:98-106): the object's rows, or an
\* error of S3 or of the parser.
DownloadAndParse(p) ==
  LET l == proc[p] IN
  /\ l.pc = "download"
  /\ \/ \E file \in FilePool(limits.rows - l.rowsRead) :
          Set(p, [l EXCEPT !.pc = "reportTotal", !.rows = file,
                           !.rowsRead = @ + Len(file),
                           !.uniqueIsbns = UniqueIsbns(file)])
     \/ /\ FALSE \in Outcomes(l)
        /\ \E m \in ErrorMessages : Set(p, Throw(Fault(l, FALSE), m))
  /\ UNCHANGED <<jobs, cache, ledger, outputs, now, ticks, limits>>

ReportTotalRows(p) ==
  LET l == proc[p]
      u == [NoUpdates EXCEPT !.totalRows = Some(Len(l.rows))]
  IN
  /\ l.pc = "reportTotal"
  /\ \E ok \in Outcomes(l) :
       /\ jobs' = JobsAfterUpdate(l.jobId, "PROCESSING", u, ok)
       /\ Set(p, [Fault(l, ok) EXCEPT !.pc = "checkQuota",
                           !.writes = Append(@, WriteRecord("PROCESSING", ok, u))])
  /\ UNCHANGED <<cache, ledger, outputs, now, ticks, limits>>

\* An admission test that forgets the estimate.
QuotaExceeded_NoEstimate(callCount, estimatedCalls) == callCount > DAILY_LIMIT

\* The admission test (index.ts:119).
QuotaExceeded(callCount, estimatedCalls) == callCount + estimatedCalls > DAILY_LIMIT

\* getDailyUsage and the admission check (index.ts:114-121); a failed read
\* of the usage item gives the default item with callCount 0.
CheckDailyUsage(p) ==
  LET l == proc[p]
      today == Day(now)
      estimatedCalls == EstimatedCalls(Len(l.uniqueIsbns))
  IN
  /\ l.pc = "checkQuota"
  /\ \E ok \in Outcomes(l) :
       LET callCount == IF ok THEN CallCount(ledger, today) ELSE 0
           l2 == [Fault(l, ok) EXCEPT !.today = today, !.dailyUsage = callCount,
                           !.estimatedCalls = estimatedCalls,
                           !.usageBefore = CallCount(ledger, today),
                           !.startTicks = ticks]
       IN  IF QuotaExceeded(callCount, estimatedCalls)
           THEN Set(p, Throw(l2, "Daily API limit would be exceeded"))
           ELSE Set(p, [l2 EXCEPT !.pc = "probe"])
  /\ UNCHANGED <<jobs, cache, ledger, outputs, now, ticks, limits>>

(***************************************************************************)
(* buildPriceMap (index.ts:174-240).                                        *)
(***************************************************************************)
\* A cache read whose expiry comparison is inverted.
getPriceFromCache_ExpiryInverted(isbn, ok) ==
  IF ok /\ isbn \in CacheKeys /\ IsSome(cache[isbn]) /\ cache[isbn][1].ttl <= now
  THEN Some(cache[isbn][1].price)
  ELSE None

\* getPriceFromCache (index.ts:343-362): the price of an unexpired entry,
\* null when there is none, it has expired, or the read fails.
getPriceFromCache(isbn, ok) ==
  IF ok /\ isbn \in CacheKeys /\ ValidEntry(cache[isbn], now)
  THEN Some(cache[isbn][1].price)
  ELSE None

\* if (cachedPrice) (index.ts:182)
IsCacheHit(cachedPrice) == IsSome(cachedPrice) /\ cachedPrice[1] # 0

\* One iteration of the probe loop (index.ts:180-187).
ProbeCache(p) ==
  LET l == proc[p] IN
  /\ l.pc = "probe"
  /\ l.ci <= Len(l.uniqueIsbns)
  /\ \E ok \in Outcomes(l) :
       LET isbn == l.uniqueIsbns[l.ci]
           cachedPrice == getPriceFromCache(isbn, ok)
           entry == IF isbn \in CacheKeys THEN cache[isbn] ELSE None
           l2 == [Fault(l, ok) EXCEPT !.ci = @ + 1,
                           !.probes = Append(@, [isbn |-> isbn, entry |-> entry,
                                                 at |-> now, ok |-> ok])]
       IN  IF IsCacheHit(cachedPrice)
           THEN Set(p, [l2 EXCEPT !.priceMap = MapSet(@, isbn, cachedPrice[1])])
           ELSE Set(p, [l2 EXCEPT !.uncachedIsbns = Append(@, isbn)])
  /\ UNCHANGED <<jobs, cache, ledger, outputs, now, ticks, limits>>

\* After the probe loop: return when nothing is uncached, else split the
\* uncached ISBNs into batches (index.ts:191-201).
StartBatches(p) ==
  LET l == proc[p] IN
  /\ l.pc = "probe"
  /\ l.ci > Len(l.uniqueIsbns)
  /\ IF Len(l.uncachedIsbns) = 0
     THEN Set(p, [l EXCEPT !.pc = "rows", !.resolved = TRUE])
     ELSE Set(p, [l EXCEPT !.pc = "fetch", !.batches = Batches(l.uncachedIsbns),
                           !.bi = 1])
  /\ UNCHANGED <<jobs, cache, ledger, outputs, now, ticks, limits>>

\* A loop that steps over every other batch.
NextBatch_SkipOne(l) ==
  IF l.bi + 1 < Len(l.batches)
  THEN [l EXCEPT !.pc = "fetch", !.bi = @ + 2]
  ELSE [l EXCEPT !.pc = "rows", !.resolved = TRUE]

\* The loop's continue and exit (index.ts:203, 231-237).
NextBatch(l) ==
  IF l.bi < Len(l.batches)
  THEN [l EXCEPT !.pc = "fetch", !.bi = @ + 1]
  ELSE [l EXCEPT !.pc = "rows", !.resolved = TRUE]

\* What fetchBulkDataFromISBNdb does with a response status
\* (index.ts:253-271): "books" (parse the body), "empty" (404), "backoff"
\* (429: wait, then throw) or "throw".
\* A client for which 404 is an error like any other.
Classify_NotFoundThrows(status) ==
  IF status = "200" THEN "books"
  ELSE IF status = "429" THEN "backoff"
  ELSE "throw"

Classify(status) ==
  IF status = "200" THEN "books"
  ELSE IF status = "429" THEN "backoff"
  ELSE IF status = "404" THEN "empty"
  ELSE "throw"

\* A batch loop that rethrows rate limiting and network failures.
OnBatchError_FatalTransient(status) ==
  IF status \in {"429", NetworkError} THEN "abort" ELSE "continue"

\* What the catch of the batch loop does with an error of a batch
\* (index.ts:231-236): "continue" with the next batch, or "abort" the job.
OnBatchError(status) == "continue"

\* fetchBulkDataFromISBNdb (index.ts:242-277) for batch bi.
\* book.isbn13 || book.isbn (index.ts:214)
BookIsbn(book) == IF book.isbn13 # EmptyStr THEN book.isbn13 ELSE book.isbn

\* The normalized identifiers of the books of a response.
ReturnedIsbns(resp) ==
  UNION { {CleanIsbn(resp[i].isbn), CleanIsbn(resp[i].isbn13)} : i \in 1..Len(resp) }
    \ {EmptyStr}

FetchBulk(p) ==
  LET l == proc[p]
      batch == l.batches[l.bi]
      Called(st) == [l EXCEPT !.calls = Append(@, [isbns |-> batch, status |-> st,
                                                  counted |-> FALSE, keys |-> {},
                                                  returned |-> {}]),
                              !.evts = Append(@, "call")]
      Failed(l2, st) ==
        IF OnBatchError(st) = "continue"
        THEN NextBatch(l2)
        ELSE Throw(l2, "ISBNdb API error")
  IN
  /\ l.pc = "fetch"
  /\ \/ \E st \in StatusCodes :
          CASE Classify(st) = "books" ->
                 \E resp \in Responses(batch) :
                   Set(p, [Called(st) EXCEPT !.pc = "increment", !.books = resp,
                                             !.calls[Len(l.calls) + 1].returned =
                                               ReturnedIsbns(resp)])
            [] Classify(st) = "empty" ->
                 Set(p, [Called(st) EXCEPT !.pc = "increment", !.books = <<>>])
            [] Classify(st) = "backoff" ->
                 Set(p, Failed([Called(st) EXCEPT !.evts = Append(@, "backoff")], st))
            [] OTHER -> Set(p, Failed(Called(st), st))
     \/ Set(p, Failed(Called(NetworkError), NetworkError))
  /\ UNCHANGED <<jobs, cache, ledger, outputs, now, ticks, limits>>

\* An increment by the size of the batch instead of one.
LedgerAfterIncrement_ByBatch(date, ok) ==
  IF ok THEN LedgerAdd(LedgerAdd(ledger, date), date) ELSE ledger

\* incrementDailyUsage (index.ts:411-431): one atomic ADD on the day the
\* job started on; a failed update is logged.
LedgerAfterIncrement(date, ok) == IF ok THEN LedgerAdd(ledger, date) ELSE ledger

\* The count the job itself would expect the day's item to hold: what it
\* read at admission plus its own counted calls.
ViewedCount(l) ==
  l.dailyUsage + Cardinality({ k \in 1..Len(l.calls) : l.calls[k].counted })

\* An update that writes the job's own view of the count plus one.
UpdateUsageItem_FromView(date, view, ok) ==
  IF ok THEN [ledger EXCEPT ![date] = Some(view + 1)] ELSE ledger

\* The UpdateItem of incrementDailyUsage (index.ts:414-427): the ADD works
\* on the stored count, the job's own view of the count plays no part.
UpdateUsageItem(date, view, ok) == LedgerAfterIncrement(date, ok)

IncrementDailyUsage(p) ==
  LET l == proc[p] IN
  /\ l.pc = "increment"
  /\ \E ok \in Outcomes(l) :
       /\ ledger' = UpdateUsageItem(l.today, ViewedCount(l), ok)
       /\ Set(p, [Fault(l, ok) EXCEPT !.pc = "books", !.bk = 1,
                           !.calls[Len(l.calls)].counted = ok])
  /\ UNCHANGED <<jobs, cache, outputs, now, ticks, limits>>


\* A conditional put that leaves an entry that is already there.
CacheAfterWrite_KeepOld(isbn, price, ok) ==
  IF ok /\ isbn \in CacheKeys /\ ~IsSome(cache[isbn])
  THEN [cache EXCEPT ![isbn] = Some(CacheEntry(price, now + CACHE_TTL))]
  ELSE cache

\* A write whose failure removes the entry of the key.
CacheAfterWrite_DropOnError(isbn, price, ok) ==
  IF isbn \notin CacheKeys THEN cache
  ELSE IF ok THEN [cache EXCEPT ![isbn] = Some(CacheEntry(price, now + CACHE_TTL))]
  ELSE [cache EXCEPT ![isbn] = None]

\* cachePriceData (index.ts:364-386): the entry expires CACHE_TTL after the
\* write; a failed write is logged.
CacheAfterWrite(isbn, price, ok) ==
  IF ok /\ isbn \in CacheKeys
  THEN [cache EXCEPT ![isbn] = Some(CacheEntry(price, now + CACHE_TTL))]
  ELSE cache

\* One iteration of the loop over the returned books (index.ts:213-222).
CacheBook(p) ==
  LET l == proc[p] IN
  /\ l.pc = "books"
  /\ l.bk <= Len(l.books)
  /\ LET book == l.books[l.bk]
         isbn == BookIsbn(book)
         price == extractPriceFromBook(book)
     IN  IF IsSome(price) /\ isbn # EmptyStr
         THEN \E ok \in Outcomes(l) :
                /\ cache' = CacheAfterWrite(isbn, price[1], ok)
                /\ Set(p, [Fault(l, ok) EXCEPT !.bk = @ + 1,
                                    !.priceMap = MapSet(@, CleanIsbn(isbn), price[1]),
                                    !.calls[Len(l.calls)].keys = @ \cup {CleanIsbn(isbn)},
                                    !.cacheWrites = @ + 1,
                                    !.cached = IF ok /\ isbn \in CacheKeys
                                               THEN @ \cup {isbn} ELSE @])
         ELSE /\ cache' = cache
              /\ Set(p, [l EXCEPT !.bk = @ + 1])
  /\ UNCHANGED <<jobs, ledger, outputs, now, ticks, limits>>

\* After the books of a batch: wait RATE_LIMIT_DELAY unless it was the last
\* batch (index.ts:226-229), then go on.
PaceOrFinish(p) ==
  LET l == proc[p] IN
  /\ l.pc = "books"
  /\ l.bk > Len(l.books)
  /\ Set(p, NextBatch(IF l.bi < Len(l.batches)
                      THEN [l EXCEPT !.evts = Append(@, "pace")]
                      ELSE l))
  /\ UNCHANGED <<jobs, cache, ledger, outputs, now, ticks, limits>>

(***************************************************************************)
(* The row loop and the output (index.ts:127-169).                          *)
(***************************************************************************)
\* A row loop whose catch block counts the error and drops the row.
PushErrorRow_Drop(processedRows, row) == processedRows

\* processedRows after the catch block of the row loop (index.ts:145-154).
PushErrorRow(processedRows, row) == Append(processedRows, ErrorRow(row))

\* One iteration of the row loop, with its progress update every
\* PROGRESS_EVERY processed rows.
ProcessRowStep(p) ==
  LET l == proc[p] IN
  /\ l.pc = "rows"
  /\ l.ri <= Len(l.rows)
  /\ LET row == l.rows[l.ri]
         r == processRow(row, l.jobStatus.settings, l.priceMap)
         count == l.processedCount + 1
         u == [NoUpdates EXCEPT !.processedRows = Some(count),
                                !.errorCount = Some(l.errorCount)]
     IN  IF r.threw
         THEN /\ Set(p, [l EXCEPT !.ri = @ + 1, !.errorCount = @ + 1,
                                  !.processedRows = PushErrorRow(@, row)])
              /\ jobs' = jobs
         ELSE IF count % PROGRESS_EVERY = 0
         THEN \E ok \in Outcomes(l) :
                /\ jobs' = JobsAfterUpdate(l.jobId, "PROCESSING", u, ok)
                /\ Set(p, [Fault(l, ok) EXCEPT !.ri = @ + 1, !.processedCount = count,
                                    !.processedRows = Append(@, r.row),
                                    !.writes = Append(@, WriteRecord("PROCESSING", ok, u))])
         ELSE /\ Set(p, [l EXCEPT !.ri = @ + 1, !.processedCount = count,
                                  !.processedRows = Append(@, r.row)])
              /\ jobs' = jobs
  /\ UNCHANGED <<cache, ledger, outputs, now, ticks, limits>>

\* generateCSV and uploadFile (index.ts:157-162): the output object is
\* written, or the upload throws.
GenerateAndUpload(p) ==
  LET l == proc[p] IN
  /\ l.pc = "rows"
  /\ l.ri > Len(l.rows)
  /\ \/ /\ outputs' = [outputs EXCEPT ![OutputKey(l.jobId, l.jobStatus)] =
                                         Some(l.processedRows)]
        /\ Set(p, [l EXCEPT !.pc = "setCompleted", !.uploaded = TRUE])
     \/ /\ FALSE \in Outcomes(l)
        /\ \E m \in ErrorMessages : Set(p, Throw(Fault(l, FALSE), m))
        /\ outputs' = outputs
  /\ UNCHANGED <<jobs, cache, ledger, now, ticks, limits>>

\* updateJobStatus(COMPLETED) (index.ts:164-169), then the next record.
SetCompleted(p) ==
  LET l == proc[p]
      u == [NoUpdates EXCEPT !.processedRows = Some(l.processedCount),
                             !.errorCount = Some(l.errorCount),
                             !.outputFileKey = Some(OutputKey(l.jobId, l.jobStatus))]
  IN
  /\ l.pc = "setCompleted"
  /\ \E ok \in Outcomes(l) :
       /\ jobs' = JobsAfterUpdate(l.jobId, "COMPLETED", u, ok)
       /\ Set(p, [Fault(l, ok) EXCEPT !.pc = "handler", !.idx = @ + 1,
                           !.writes = Append(@, WriteRecord("COMPLETED", ok, u))])
  /\ UNCHANGED <<cache, ledger, outputs, now, ticks, limits>>

\* A catch block that undoes the cache writes of the run.
CacheAfterFailure_Rollback(l) == [k \in CacheKeys |-> IF k \in l.cached THEN None ELSE cache[k]]

\* The catch block touches the job's item only: the cache stays as the run
\* left it (index.ts:76-81).
CacheAfterFailure(l) == cache

\* A catch block that marks the job and then gives up the whole event.
SetFailed_AbortEvent(p) ==
  LET l == proc[p]
      u == [NoUpdates EXCEPT !.errorMessage = l.error]
  IN
  /\ l.pc = "catch"
  /\ \E ok \in Outcomes(l) :
       /\ jobs' = JobsAfterUpdate(l.jobId, "FAILED", u, ok)
       /\ Set(p, [Fault(l, ok) EXCEPT !.pc = "handler", !.idx = Len(l.Records) + 1,
                           !.writes = Append(@, WriteRecord("FAILED", ok, u))])
  /\ cache' = CacheAfterFailure(l)
  /\ UNCHANGED <<ledger, outputs, now, ticks, limits>>

\* The handler's catch block (index.ts:76-81), then the next record.
SetFailed(p) ==
  LET l == proc[p]
      u == [NoUpdates EXCEPT !.errorMessage = l.error]
  IN
  /\ l.pc = "catch"
  /\ \E ok \in Outcomes(l) :
       /\ jobs' = JobsAfterUpdate(l.jobId, "FAILED", u, ok)
       /\ Set(p, [Fault(l, ok) EXCEPT !.pc = "handler", !.idx = @ + 1,
                           !.writes = Append(@, WriteRecord("FAILED", ok, u))])
  /\ cache' = CacheAfterFailure(l)
  /\ UNCHANGED <<ledger, outputs, now, ticks, limits>>

(***************************************************************************)
(* The clock: a day or a cache lifetime passes.  Only the admission check,  *)
(* the cache probe and the cache write read the clock, so an advance at     *)
(* any other moment is the same as one just before the next of these.       *)
(***************************************************************************)
ClockReaders == {"checkQuota", "probe", "books"}

Tick ==
  /\ ticks < limits.ticks
  /\ \E p \in Procs : proc[p].pc \in ClockReaders
  /\ \E d \in {DAY_SECONDS, CACHE_TTL} : now' = now + d
  /\ ticks' = ticks + 1
  /\ UNCHANGED <<jobs, cache, ledger, outputs, proc, limits>>

Next ==
  \/ Tick
  \/ \E p \in Procs :
       \/ HandlerNext(p)
       \/ GetJobStatus(p)
       \/ SetProcessing(p)
       \/ GetIsbndbApiKey(p)
       \/ DownloadAndParse(p)
       \/ ReportTotalRows(p)
       \/ CheckDailyUsage(p)
       \/ ProbeCache(p)
       \/ StartBatches(p)
       \/ FetchBulk(p)
       \/ IncrementDailyUsage(p)
       \/ CacheBook(p)
       \/ PaceOrFinish(p)
       \/ ProcessRowStep(p)
       \/ GenerateAndUpload(p)
       \/ SetCompleted(p)
       \/ SetFailed(p)

Spec == Init /\ [][Next]_vars

(***************************************************************************)
(* The row transformer on its own: a run at the start of its row loop with  *)
(* one row, any of the settings the upload endpoint accepts and a PriceMap  *)
(* of resolved prices.                                                      *)
(***************************************************************************)
RowInputs ==
  RowPool \cup { Row(A13, <<"1", "6", ".", "0", "1">>),
                 Row(B13, <<"2", "5", ".", "0", "0">>),
                 Row(B13, <<"0", ".", "0", "0">>),
                 Row(B10, InfinityText) }

PriceMapPool ==
  { EmptyMap,
    MapSet(EmptyMap, A13, 2230),
    MapSet(EmptyMap, A13, 1601),
    MapSet(MapSet(EmptyMap, A13, 2416), B13, 2500) }

RowLocals(row, settings, priceMap) ==
  [FreshLocals(<<KeyOf("j1")>>, 1, NoPrev, 1, 0) EXCEPT
     !.pc = "rows", !.jobId = "j1", !.jobStatus = PendingItem(settings),
     !.rows = <<row>>, !.uniqueIsbns = UniqueIsbns(<<row>>),
     !.priceMap = priceMap, !.resolved = TRUE]

InitRow ==
  /\ limits = Limits(1, 1, 0, 0)
  /\ cache = EmptyCache
  /\ ledger = [d \in Days |-> None]
  /\ outputs = [k \in OutKeys |-> None]
  /\ now = 0
  /\ ticks = 0
  /\ \E row \in RowInputs, settings \in SettingsPool, priceMap \in PriceMapPool :
       /\ jobs = [j \in JobIds |->
                    IF j = "j1"
                    THEN UpdatedItem(PendingItem(settings), "PROCESSING",
                                     [NoUpdates EXCEPT !.totalRows = Some(1)])
                    ELSE NoItem]
       /\ proc = [p \in Procs |->
                    IF p = "h1" THEN RowLocals(row, settings, priceMap)
                    ELSE FreshLocals(<<>>, 1, NoPrev, 0, 0)]

NextRow == \E p \in Procs : ProcessRowStep(p)

SpecRow == InitRow /\ [][NextRow]_vars

(***************************************************************************)
(* Two invocations at once, one job each, from their admission checks to    *)
(* the end of their resolutions, on the shared cache and usage table.       *)
(***************************************************************************)
ConcFiles ==
  { <<Row(A13h, <<"1", "2", ".", "5", "0">>)>>,
    <<Row(A10, EmptyStr), Row(B13, <<"a", "b", "c">>)>>,
    <<Row(A13h, <<"1", "2", ".", "5", "0">>), Row(A10, EmptyStr),
      Row(B13, <<"a", "b", "c">>)>> }

\* The record of a job whose file of n rows has been read.
ProcessingItem(n) ==
  UpdatedItem(PendingItem(JobSettings), "PROCESSING",
              [NoUpdates EXCEPT !.totalRows = Some(n)])

\* The locals of processFile when it reaches its admission check.
AtAdmission(jobId, file) ==
  [FreshLocals(<<KeyOf(jobId)>>, 1, NoPrev, Len(file), 0) EXCEPT
     !.pc = "checkQuota", !.jobId = jobId,
     !.jobStatus = PendingItem(JobSettings),
     !.rows = file, !.uniqueIsbns = UniqueIsbns(file),
     !.writes = << WriteRecord("PROCESSING", TRUE, NoUpdates),
                   WriteRecord("PROCESSING", TRUE,
                               [NoUpdates EXCEPT !.totalRows = Some(Len(file))]) >>]

InitConc ==
  /\ limits = Limits(1, MaxRows, 0, 0)
  /\ cache = EmptyCache
  /\ \E u \in InitUsages : ledger = [d \in Days |-> IF d = 0 THEN u ELSE None]
  /\ outputs = [k \in OutKeys |-> None]
  /\ now = 0
  /\ ticks = 0
  /\ \E f1 \in ConcFiles, f2 \in ConcFiles :
       /\ jobs = [j \in JobIds |-> ProcessingItem(IF j = "j1" THEN Len(f1) ELSE Len(f2))]
       /\ proc = [p \in Procs |-> IF p = "h1" THEN AtAdmission("j1", f1)
                                  ELSE AtAdmission("j2", f2)]

NextConc ==
  \E p \in Procs :
    \/ CheckDailyUsage(p)
    \/ ProbeCache(p)
    \/ StartBatches(p)
    \/ FetchBulk(p)
    \/ IncrementDailyUsage(p)
    \/ CacheBook(p)
    \/ PaceOrFinish(p)

SpecConc == InitConc /\ [][NextConc]_vars

(***************************************************************************)
(* A job and its retry: one invocation with two records for the same key,   *)
(* from the admission check of the first on, with an empty cache.  Two      *)
(* operations may fail and the clock may advance once.                      *)
(***************************************************************************)
RetryFile == <<Row(A13h, <<"1", "2", ".", "5", "0">>)>>

InitRetry ==
  /\ limits = Limits(2, 2, 2, 1)
  /\ cache = EmptyCache
  /\ ledger = [d \in Days |-> None]
  /\ outputs = [k \in OutKeys |-> None]
  /\ now = 0
  /\ ticks = 0
  /\ jobs = [j \in JobIds |-> IF j = "j1" THEN ProcessingItem(Len(RetryFile)) ELSE NoItem]
  /\ proc = [p \in Procs |->
               IF p = "h1"
               THEN [AtAdmission("j1", RetryFile) EXCEPT
                       !.Records = <<KeyOf("j1"), KeyOf("j1")>>]
               ELSE FreshLocals(<<>>, 1, NoPrev, 0, 0)]

SpecRetry == InitRetry /\ [][Next]_vars

(***************************************************************************)
(* The books of one response: the job has probed an empty cache, made its   *)
(* one call and counted it; the provider's answer is any two books or       *)
(* fewer, with identifiers and price fields as the provider may send them.  *)
(***************************************************************************)
BooksFile == <<Row(A13h, <<"1", "2", ".", "5", "0">>), Row(A10, EmptyStr)>>

BookIdPool == { <<A10, A13>>, <<A10, A13h>>, <<A10, EmptyStr>>,
                <<EmptyStr, A13>>, <<EmptyStr, EmptyStr>> }
BookMsrpPool ==
  { <<"$", "2", "4", ".", "1", "6">>, <<"N", "/", "A">>, <<"0", ".", "0", "0">>,
    <<"-", "5", ".", "0", "0">>, EmptyStr }
BookPool == { Book(id[1], id[2], m) : id \in BookIdPool, m \in BookMsrpPool }
ResponsePool == UNION { [1..n -> BookPool] : n \in 0..2 }

\* The locals of buildPriceMap when it starts on the books of its first
\* response.
AtBooks(jobId, file, books) ==
  LET isbns == UniqueIsbns(file) IN
  [AtAdmission(jobId, file) EXCEPT
     !.pc = "books", !.estimatedCalls = EstimatedCalls(Len(isbns)),
     !.ci = Len(isbns) + 1, !.uncachedIsbns = isbns,
     !.probes = [i \in 1..Len(isbns) |->
                   [isbn |-> isbns[i], entry |-> None, at |-> 0, ok |-> TRUE]],
     !.batches = Batches(isbns), !.books = books,
     !.calls = << [isbns |-> Batches(isbns)[1], status |-> "200",
                   counted |-> TRUE, keys |-> {},
                   returned |-> ReturnedIsbns(books)] >>,
     !.evts = <<"call">>]

InitBooks ==
  /\ limits = Limits(1, Len(BooksFile), 0, 0)
  /\ cache = EmptyCache
  /\ ledger = [d \in Days |-> IF d = 0 THEN Some(1) ELSE None]
  /\ outputs = [k \in OutKeys |-> None]
  /\ now = 0
  /\ ticks = 0
  /\ jobs = [j \in JobIds |-> IF j = "j1" THEN ProcessingItem(Len(BooksFile)) ELSE NoItem]
  /\ \E books \in ResponsePool :
       proc = [p \in Procs |-> IF p = "h1" THEN AtBooks("j1", BooksFile, books)
                                ELSE FreshLocals(<<>>, 1, NoPrev, 0, 0)]

NextBooks == \E p \in Procs : CacheBook(p) \/ PaceOrFinish(p)

SpecBooks == InitBooks /\ [][NextBooks]_vars

(***************************************************************************)
(* The upload endpoint (unnamed/part_001): validation of the request and   *)
(* creation of the job record. Two invocations run concurrently.           *)
(***************************************************************************)
\* JSON values of the request body, as JSON.parse yields them.
JsUndefined == [type |-> "undefined"]
JsNull == [type |-> "null"]
JsBoolean(b) == [type |-> "boolean", b |-> b]
JsString(s) == [type |-> "string", s |-> s]
JsNumber(n) == [type |-> "number", n |-> n]
JsSettings(rounding, adjustment) ==
  [type |-> "object", priceRounding |-> rounding, priceAdjustment |-> adjustment]
JsBody(fileName, fileSize, settings) ==
  [type |-> "object", fileName |-> fileName, fileSize |-> fileSize,
   settings |-> settings]

\* typeof v
TypeOf(v) == IF v.type = "null" THEN "object" ELSE v.type
\* !v
Falsy(v) ==
  \/ v.type \in {"undefined", "null"}
  \/ v.type = "boolean" /\ ~v.b
  \/ v.type = "string" /\ v.s = EmptyStr
  \/ v.type = "number" /\ ~Truthy(v.n)
\* a < b for numbers
NumberLess(a, b) ==
  /\ ~a.nan /\ ~b.nan
  /\ IF a.inf THEN a.c < 0 /\ ~(b.inf /\ b.c < 0)
     ELSE IF b.inf THEN b.c > 0
     ELSE a.c < b.c

\* Amounts are in cents: 50MB is a count of bytes, the adjustment bounds are
\* -1000 and 1000 currency units.
MAX_FILE_SIZE == 50 * 1024 * 1024
MIN_ADJUSTMENT == 0 - 100000
MAX_ADJUSTMENT == 100000

allowedExtensions ==
  { <<".", "c", "s", "v">>, <<".", "x", "l", "s", "x">>,
    <<".", "x", "l", "s">>, <<".", "t", "s", "v">> }
ToLowerCase(s) ==
  [i \in 1..Len(s) |->
     CASE s[i] = "C" -> "c" [] s[i] = "S" -> "s" [] s[i] = "V" -> "v"
       [] OTHER -> s[i]]
\* s.lastIndexOf(ch), 0-based, -1 when ch does not occur
LastIndexOf(s, ch) ==
  LET at == { i \in 1..Len(s) : s[i] = ch } IN
  IF at = {} THEN 0 - 1
  ELSE (CHOOSE i \in at : \A k \in at : k <= i) - 1
\* s.slice(start): a negative start counts from the end
Slice(s, start) ==
  LET from == IF start < 0
                THEN (IF Len(s) + start < 0 THEN 0 ELSE Len(s) + start)
                ELSE (IF start > Len(s) THEN Len(s) ELSE start)
  IN SubSeq(s, from + 1, Len(s))
fileExtension(fileName) ==
  Slice(ToLowerCase(fileName), LastIndexOf(fileName, "."))

\* validateUploadRequest: "" when the request is valid, else the error.
validateUploadRequest(body) ==
  LET fileName == IF body.type = "object" THEN body.fileName ELSE JsUndefined
      fileSize == IF body.type = "object" THEN body.fileSize ELSE JsUndefined
      settings == IF body.type = "object" THEN body.settings ELSE JsUndefined
      rounding == IF settings.type = "object" THEN settings.priceRounding
                  ELSE JsUndefined
      adjustment == IF settings.type = "object" THEN settings.priceAdjustment
                    ELSE JsUndefined
  IN
  IF Falsy(fileName) THEN "fileName is required"
  ELSE IF Falsy(fileSize) \/ ~NumberLess(Num(0), fileSize.n)
    THEN "Valid fileSize is required"
  ELSE IF NumberLess(Num(MAX_FILE_SIZE), fileSize.n)
    THEN "File size exceeds 50MB limit"
  ELSE IF fileExtension(fileName.s) \notin allowedExtensions
    THEN "File type not supported"
  ELSE IF Falsy(settings) \/ TypeOf(rounding) # "boolean"
    THEN "Valid settings object is required"
  ELSE IF adjustment.type # "undefined" /\ TypeOf(adjustment) # "number"
    THEN "priceAdjustment must be a number"
  ELSE IF adjustment.type # "undefined"
          /\ (NumberLess(adjustment.n, Num(MIN_ADJUSTMENT))
              \/ NumberLess(Num(MAX_ADJUSTMENT), adjustment.n))
    THEN "priceAdjustment must be between -1000 and 1000"
  ELSE ""

\* The settings as the job record stores them (marshall of request.settings).
StoredSettings(settings) ==
  IF settings.priceAdjustment.type = "undefined"
    THEN Settings(settings.priceRounding.b, FALSE, 0)
    ELSE Settings(settings.priceRounding.b, TRUE, settings.priceAdjustment.n.c)

\* The requests: a valid one, and one for each way a field can differ.
CatalogCsv == <<"c", "a", "t", ".", "c", "s", "v">>
ValidBody == JsBody(JsString(CatalogCsv), JsNumber(Num(1024)),
                    JsSettings(JsBoolean(TRUE), JsUndefined))
UploadNames ==
  { JsUndefined, JsString(EmptyStr), JsString(CatalogCsv),
    JsString(<<"A", ".", "C", "S", "V">>), JsString(<<"a", ".", "t", "x", "t">>),
    JsString(<<"c", "s", "v">>) }
UploadSizes ==
  { JsUndefined, JsNumber(Num(0)), JsNumber(Num(0 - 1)),
    JsNumber(Num(MAX_FILE_SIZE)), JsNumber(Num(MAX_FILE_SIZE + 1)) }
UploadAdjustments ==
  { JsUndefined, JsNull, JsString(<<"5">>), JsNumber(Infinity(FALSE)),
    JsNumber(Infinity(TRUE)) }
  \cup { JsNumber(Num(c)) :
           c \in { MIN_ADJUSTMENT - 1, MIN_ADJUSTMENT, 0 - 500, 0, 250,
                   MAX_ADJUSTMENT, MAX_ADJUSTMENT + 1 } }
UploadSettings ==
  { JsUndefined, JsNull, JsString(<<"x">>) }
  \cup { JsSettings(r, a) : r \in {JsUndefined, JsString(<<"t", "r", "u", "e">>),
                                   JsBoolean(TRUE), JsBoolean(FALSE)},
                            a \in UploadAdjustments }
UploadBodies ==
  { JsNull, JsNumber(Num(5)) }
  \cup { [ValidBody EXCEPT !.fileName = n] : n \in UploadNames }
  \cup { [ValidBody EXCEPT !.fileSize = s] : s \in UploadSizes }
  \cup { [ValidBody EXCEPT !.settings = s] : s \in UploadSettings }
\* event.body: absent, a text that is not JSON, or the text of a JSON value.
UploadEvents ==
  { [httpMethod |-> m, body |-> "absent", json |-> JsNull] :
      m \in {"OPTIONS", "GET", "POST"} }
  \cup { [httpMethod |-> "POST", body |-> "malformed", json |-> JsNull] }
  \cup { [httpMethod |-> "POST", body |-> "json", json |-> b] : b \in UploadBodies }

UploadLocals(event) ==
  [pc |-> "handler", event |-> event, jobId |-> "", statusCode |-> 0,
   created |-> FALSE, uploadUrl |-> FALSE]

InitUpload ==
  /\ limits = Limits(0, 0, MaxFaults, 0)
  /\ cache = EmptyCache
  /\ ledger = [d \in Days |-> None]
  /\ outputs = [k \in OutKeys |-> None]
  /\ now = 0
  /\ ticks = 0
  /\ jobs = [j \in JobIds |-> NoItem]
  /\ \E e1 \in UploadEvents, e2 \in UploadEvents :
       proc = [p \in Procs |-> UploadLocals(IF p = "h1" THEN e1 ELSE e2)]

Respond(p, code) ==
  proc' = [proc EXCEPT ![p].pc = "done", ![p].statusCode = code]

\* handler, up to the first await (part_001:41-82): method, body, JSON.parse,
\* validation and the choice of the job id by uuidv4.
UploadHandler(p) ==
  LET l == proc[p] IN
  /\ l.pc = "handler"
  /\ UNCHANGED <<jobs, cache, ledger, outputs, now, ticks, limits>>
  /\ IF l.event.httpMethod = "OPTIONS" THEN Respond(p, 200)
     ELSE IF l.event.httpMethod # "POST" THEN Respond(p, 405)
     ELSE IF l.event.body = "absent" THEN Respond(p, 400)
     ELSE IF l.event.body = "malformed" THEN Respond(p, 500)
     ELSE IF l.event.json.type = "null" THEN Respond(p, 500)
     ELSE IF validateUploadRequest(l.event.json) # "" THEN Respond(p, 400)
     ELSE \E j \in JobIds :
            proc' = [proc EXCEPT ![p].pc = "createJobRecord", ![p].jobId = j]

\* createJobRecord (part_001:159-180): a conditional put; it throws when the
\* id exists or the store fails, and the handler answers 500.
createJobRecord(p) ==
  LET l == proc[p] IN
  /\ l.pc = "createJobRecord"
  /\ UNCHANGED <<cache, ledger, outputs, now, ticks>>
  /\ \E ok \in BOOLEAN :
       /\ ok \/ limits.faults > 0
       /\ limits' = IF ok THEN limits ELSE [limits EXCEPT !.faults = @ - 1]
       /\ IF ok /\ ~jobs[l.jobId].exists
            THEN /\ jobs' = [jobs EXCEPT ![l.jobId] =
                               [PendingItem(StoredSettings(l.event.json.settings))
                                  EXCEPT !.fileName = l.event.json.fileName.s]]
                 /\ proc' = [proc EXCEPT ![p].pc = "generatePresignedUrl",
                                         ![p].created = TRUE]
            ELSE /\ UNCHANGED jobs
                 /\ Respond(p, 500)

\* generatePresignedUrl and the 200 response (part_001:86-103).
generatePresignedUrl(p) ==
  LET l == proc[p] IN
  /\ l.pc = "generatePresignedUrl"
  /\ UNCHANGED <<jobs, cache, ledger, outputs, now, ticks>>
  /\ \E ok \in BOOLEAN :
       /\ ok \/ limits.faults > 0
       /\ limits' = IF ok THEN limits ELSE [limits EXCEPT !.faults = @ - 1]
       /\ proc' = [proc EXCEPT ![p].pc = "done",
                               ![p].statusCode = IF ok THEN 200 ELSE 500,
                               ![p].uploadUrl = ok]

NextUpload ==
  \E p \in Procs : UploadHandler(p) \/ createJobRecord(p) \/ generatePresignedUrl(p)

SpecUpload == InitUpload /\ [][NextUpload]_vars

(***************************************************************************)
(* One invocation at its admission check, with a day's count at or just    *)
(* below the limit and operations that may fail.                           *)
(***************************************************************************)
InitQuota ==
  /\ limits = Limits(1, MaxRows, MaxFaults, 0)
  /\ cache = EmptyCache
  /\ \E u \in InitUsages \cup {Some(DAILY_LIMIT)} :
       ledger = [d \in Days |-> IF d = 0 THEN u ELSE None]
  /\ outputs = [k \in OutKeys |-> None]
  /\ now = 0
  /\ ticks = 0
  /\ \E f \in ConcFiles :
       /\ jobs = [j \in JobIds |-> IF j = "j1" THEN ProcessingItem(Len(f)) ELSE NoItem]
       /\ proc = [p \in Procs |-> IF p = "h1" THEN AtAdmission("j1", f)
                                  ELSE FreshLocals(<<>>, 1, NoPrev, 0, 0)]

SpecQuota == InitQuota /\ [][NextConc]_vars

(***************************************************************************)
(* The client's status polling (frontend DownloadExportCard.tsx,            *)
(* pollJobStatus), with the progress callback of App.tsx: a polling of up   *)
(* to twelve attempts beside a short one.  Delays are in hundredths of a    *)
(* millisecond, rounded down.                                               *)
(***************************************************************************)
MAX_DELAY == 500000
\* Math.min(delay * 1.2, 5000)
NextDelay(delay) ==
  LET d == (delay * 12) \div 10 IN IF d < MAX_DELAY THEN d ELSE MAX_DELAY

\* What getJobStatus gives: a rejected request, or the parsed body of a 200
\* response, which is a job with a status or the JSON value null.
PollOutcomes == {"error", "null", "PENDING", "PROCESSING", "COMPLETED", "FAILED"}
\* The values of maxAttempts; the last lets the delay reach its cap.
PollAttempts == {0, 1, 2, 12}

PollLocals(maxAttempts) ==
  [pc |-> "while", maxAttempts |-> maxAttempts, attempt |-> 0, delay |-> 100000,
   requests |-> 0, fetched |-> 0, failures |-> 0, callbacks |-> 0,
   terminals |-> 0, status |-> "", waited |-> 0, returned |-> ""]

InitPoll ==
  /\ limits = Limits(0, 0, 0, 0)
  /\ cache = EmptyCache
  /\ ledger = [d \in Days |-> None]
  /\ outputs = [k \in OutKeys |-> None]
  /\ now = 0
  /\ ticks = 0
  /\ jobs = [j \in JobIds |-> IF j = "j1" THEN PendingItem(JobSettings) ELSE NoItem]
  /\ \E m1 \in PollAttempts, m2 \in {0, 1} :
       proc = [p \in Procs |-> PollLocals(IF p = "h1" THEN m1 ELSE m2)]

\* One pass of the try block up to its wait (DownloadExportCard.tsx:420-431):
\* the request, the callback, the test of the status.  The callback reads
\* the fields of the status and throws on null, as does status.status.
PollRequest(p) ==
  LET l == proc[p] IN
  /\ l.pc = "while"
  /\ l.attempt < l.maxAttempts
  /\ \E out \in PollOutcomes :
       LET asked == [l EXCEPT !.requests = @ + 1, !.status = out] IN
       proc' = [proc EXCEPT ![p] =
         IF out = "error"
           THEN [asked EXCEPT !.pc = "catch", !.failures = @ + 1]
         ELSE IF out = "null"
           THEN [asked EXCEPT !.pc = "catch", !.fetched = @ + 1, !.callbacks = @ + 1]
         ELSE IF out \in Terminal
           THEN [asked EXCEPT !.pc = "returned", !.fetched = @ + 1,
                              !.callbacks = @ + 1, !.terminals = @ + 1,
                              !.returned = out]
         ELSE [asked EXCEPT !.pc = "wait", !.fetched = @ + 1, !.callbacks = @ + 1]]
  /\ UNCHANGED <<jobs, cache, ledger, outputs, now, ticks, limits>>

\* The wait, the backoff and the count after a status that is not terminal
\* (DownloadExportCard.tsx:433-438).
PollWait(p) ==
  LET l == proc[p] IN
  /\ l.pc = "wait"
  /\ proc' = [proc EXCEPT ![p].pc = "while", ![p].waited = l.delay,
                          ![p].delay = NextDelay(l.delay),
                          ![p].attempt = l.attempt + 1]
  /\ UNCHANGED <<jobs, cache, ledger, outputs, now, ticks, limits>>

\* A catch block that waits and does not count the attempt.
PollRetryWait_NoCount(p) ==
  LET l == proc[p] IN
  /\ l.pc = "catch"
  /\ proc' = [proc EXCEPT ![p].pc = "while", ![p].waited = l.delay]
  /\ UNCHANGED <<jobs, cache, ledger, outputs, now, ticks, limits>>

\* The catch block (DownloadExportCard.tsx:440-446): wait and count.
PollRetryWait(p) ==
  LET l == proc[p] IN
  /\ l.pc = "catch"
  /\ proc' = [proc EXCEPT ![p].pc = "while", ![p].waited = l.delay,
                          ![p].attempt = l.attempt + 1]
  /\ UNCHANGED <<jobs, cache, ledger, outputs, now, ticks, limits>>

\* The loop ends without a return (DownloadExportCard.tsx:449).
PollTimeout(p) ==
  LET l == proc[p] IN
  /\ l.pc = "while"
  /\ ~(l.attempt < l.maxAttempts)
  /\ proc' = [proc EXCEPT ![p].pc = "thrown"]
  /\ UNCHANGED <<jobs, cache, ledger, outputs, now, ticks, limits>>

NextPoll ==
  \E p \in Procs : PollRequest(p) \/ PollWait(p) \/ PollRetryWait(p) \/ PollTimeout(p)

\* Every request is answered or rejected and every timer fires.
SpecPoll ==
  InitPoll /\ [][NextPoll]_vars
    /\ \A p \in Procs :
         WF_vars(PollRequest(p) \/ PollWait(p) \/ PollRetryWait(p) \/ PollTimeout(p))

(***************************************************************************)
(* Properties.                                                              *)
(***************************************************************************)
\* The run of the current record has ended with this status sent last.
Ended(l, status) ==
  /\ l.pc = "handler"
  /\ Len(l.writes) > 0
  /\ l.writes[Len(l.writes)].status = status

OutputRows(l) == outputs[OutputKey(l.jobId, l.jobStatus)]

\* C1: a job that reaches COMPLETED has written exactly as many output rows
\* as it parsed input rows, whatever the outcomes of its rows.
C1_RowCount ==
  \A p \in Procs :
    LET l == proc[p] IN
    (l.uploaded \/ Ended(l, "COMPLETED")) =>
      /\ IsSome(OutputRows(l))
      /\ Len(OutputRows(l)[1]) = Len(l.rows)
      /\ Len(l.processedRows) = Len(l.rows)

\* A completed job whose rows include one that threw in the transformer and
\* one that did not.
C1_Witness ==
  \E p \in Procs :
    LET l == proc[p] IN
    /\ Ended(l, "COMPLETED")
    /\ l.errorCount >= 1
    /\ l.processedCount >= 1
    /\ \E i \in 1..Len(OutputRows(l)[1]) :
         OutputRows(l)[1][i].processingStatus = "error"

\* Probe i of run l found an unexpired entry in the cache.
ProbeValid(l, i) == ValidEntry(l.probes[i].entry, l.probes[i].at)
Requested(l) == UNION { Range(l.calls[k].isbns) : k \in 1..Len(l.calls) }

\* What C2 says of probe i: the ISBN is in the PriceMap, with the cached
\* price while the probe loop runs, and in no request to the provider.
ServedFromCache(l, i) ==
  LET isbn == l.probes[i].isbn IN
  /\ MapHas(l.priceMap, isbn)
  /\ l.pc = "probe" => l.priceMap[isbn] = l.probes[i].entry[1].price
  /\ isbn \notin Range(l.uncachedIsbns)
  /\ isbn \notin Requested(l)

\* C2 as stated: every ISBN with an unexpired cache entry is served from the
\* cache and never requested.
C2_Original ==
  \A p \in Procs :
    \A i \in 1..Len(proc[p].probes) :
      ProbeValid(proc[p], i) => ServedFromCache(proc[p], i)

\* C2, amended: every ISBN whose unexpired cache entry is read successfully is
\* served from the cache and never requested; when that is every requested
\* ISBN, no provider call is made.
C2_CacheHitNoCall ==
  \A p \in Procs :
    LET l == proc[p] IN
    /\ \A i \in 1..Len(l.probes) :
         (ProbeValid(l, i) /\ l.probes[i].ok) => ServedFromCache(l, i)
    /\ ( /\ Len(l.probes) = Len(l.uniqueIsbns)
         /\ \A i \in 1..Len(l.probes) : ProbeValid(l, i) /\ l.probes[i].ok )
       => l.calls = <<>>

\* A run that served one ISBN from the cache and requested another.
C2_Witness ==
  \E p \in Procs :
    LET l == proc[p] IN
    /\ l.resolved
    /\ \E i \in 1..Len(l.probes) : ProbeValid(l, i) /\ l.probes[i].ok
    /\ l.calls # <<>>

\* C3: when the usage read plus the estimated calls exceeds DAILY_LIMIT, the
\* job fails with the quota error and has issued no provider call, made no
\* ledger increment and written no cache entry.
QuotaMessage == "Daily API limit would be exceeded"

LedgerDelta(l) == CallCount(ledger, l.today) - l.usageBefore
CallsWhere(l, P(_)) == Cardinality({ k \in 1..Len(l.calls) : P(l.calls[k]) })

\* C4 as stated: after the batches the ledger has grown by the number of
\* calls issued, whatever their outcome.
C4_Original ==
  \A p \in Procs :
    LET l == proc[p] IN
    l.resolved => LedgerDelta(l) = Len(l.calls)

\* C4, amended: the ledger grows by one for each call that returned a body or
\* 404 and whose ledger update succeeded, so by no more than the calls issued,
\* which are no more than ceil(misses / BULK_SIZE).
C4_QuotaCounts ==
  \A p \in Procs :
    LET l == proc[p]
        Counted(c) == c.status \in {"200", "404"} /\ c.counted
    IN
    (l.calls # <<>> \/ l.resolved) =>
      /\ LedgerDelta(l) = CallsWhere(l, Counted)
      /\ LedgerDelta(l) <= Len(l.calls)
      /\ Len(l.calls) <= EstimatedCalls(Len(l.uncachedIsbns))
      /\ \A k \in 1..Len(l.calls) :
           l.calls[k].status \notin {"200", "404"} => ~l.calls[k].counted

\* A finished resolution of two calls, one rate-limited and one counted.
C4_Witness ==
  \E p \in Procs :
    LET l == proc[p] IN
    /\ l.resolved
    /\ Len(l.calls) = 2
    /\ LedgerDelta(l) = 1
    /\ \E k \in 1..2 : l.calls[k].status = "429"

\* Run l resolved the ISBN set of the previous record again, and the clock
\* has not advanced since the previous resolution began.
SecondRun(l) ==
  /\ l.resolved
  /\ l.prev.has
  /\ l.prev.isbns = l.uniqueIsbns
  /\ ticks = l.prev.ticks

C6_Original ==
  \A p \in Procs :
    LET l == proc[p] IN
    \A k \in 1..Len(l.calls) :
      l.calls[k].status \in {"401", "500"} =>
        /\ k = Len(l.calls)
        /\ ~l.uploaded
        /\ l.pc = "handler" => Ended(l, "FAILED")

\* The failures C7 is about.
Transient == {"429", NetworkError}
\* Nothing was thrown out of the resolution.
NotAborted(l) == l.pc = "catch" => l.resolved
AllDispatched(l) == l.resolved => Len(l.calls) = Len(l.batches)
EntriesKept(l) ==
  \A k \in 1..Len(l.calls) : \A x \in l.calls[k].keys : MapHas(l.priceMap, x)

\* C7 as stated: a transient or rate-limited failure of a batch aborts
\* nothing, later batches are dispatched, the entries of other batches are
\* kept, and no ISBN of the failed batch is in the PriceMap.
C7_Original ==
  \A p \in Procs :
    LET l == proc[p] IN
    \A k \in 1..Len(l.calls) :
      l.calls[k].status \in Transient =>
        /\ NotAborted(l)
        /\ AllDispatched(l)
        /\ EntriesKept(l)
        /\ \A x \in Range(l.calls[k].isbns) : ~MapHas(l.priceMap, x)

\* C7, amended: a transient or rate-limited failure of a batch aborts
\* nothing, later batches are dispatched, the entries of other batches are
\* kept, and the failed batch adds no entry: an ISBN of the failed batch is
\* in the PriceMap only when the response of another batch carried it.
C7_BatchIsolation ==
  \A p \in Procs :
    LET l == proc[p] IN
    \A k \in 1..Len(l.calls) :
      l.calls[k].status \in Transient =>
        /\ NotAborted(l)
        /\ AllDispatched(l)
        /\ EntriesKept(l)
        /\ l.calls[k].keys = {}
        /\ ~l.calls[k].counted
        /\ \A x \in Range(l.calls[k].isbns) :
             MapHas(l.priceMap, x) =>
               \E j \in 1..Len(l.calls) : j # k /\ x \in l.calls[j].keys

\* A completed job whose first batch was rate-limited and whose second batch
\* put a price in the PriceMap.
C7_Witness ==
  \E p \in Procs :
    LET l == proc[p] IN
    /\ Ended(l, "COMPLETED")
    /\ Len(l.calls) = 2
    /\ l.calls[1].status = "429"
    /\ l.calls[2].keys # {}

\* C8 as stated: every provider call after the first comes right after a
\* wait, and no pacing wait follows the last call.
C8_Original ==
  \A p \in Procs :
    LET l == proc[p] IN
    /\ \A i \in 2..Len(l.evts) :
         l.evts[i] = "call" => l.evts[i - 1] \in {"pace", "backoff"}
    /\ (l.resolved /\ l.evts # <<>>) => l.evts[Len(l.evts)] # "pace"

\* C9 as stated: a finished run has sent exactly one terminal status, as its
\* last write, COMPLETED with the output location or FAILED with an error
\* message.
C9_Original ==
  \A p \in Procs :
    LET l == proc[p]
        n == Len(l.writes)
    IN
    (l.pc = "handler" /\ l.jobId # "") =>
      /\ n > 0
      /\ l.writes[n].status \in Terminal
      /\ \A i \in 1..(n - 1) : l.writes[i].status \notin Terminal
      /\ l.writes[n].status = "COMPLETED" => l.writes[n].outputFileKey
      /\ l.writes[n].status = "FAILED" => l.writes[n].errorMessage

\* C10 as stated: no step changes the status of a job record that is
\* COMPLETED or FAILED.
C10_Original ==
  [][\A j \in JobIds :
       jobs[j].status \in Terminal => jobs'[j].status = jobs[j].status]_vars

\* C11 as stated: a record's status changes only from PENDING to PROCESSING,
\* on a record that exists, and from PROCESSING to COMPLETED or FAILED.
C11_Original ==
  [][\A j \in JobIds :
       LET old == jobs[j].status
           new == jobs'[j].status
       IN  new # old =>
             /\ new = "PROCESSING" => (jobs[j].exists /\ old = "PENDING")
             /\ new \in Terminal => old = "PROCESSING"]_vars

\* C12 as stated: a record whose status is FAILED carries a non-empty
\* errorMessage.
C12_Original ==
  \A j \in JobIds : jobs[j].status = "FAILED" => jobs[j].errorMessage # ""

\* Within one run: a run that ends FAILED has written no output object;
\* COMPLETED is sent only after the output object was written and carries
\* its location; a record that is COMPLETED names an object that exists.
RunOutputBeforeCompleted ==
  /\ \A p \in Procs :
       LET l == proc[p]
           n == Len(l.writes)
       IN
       /\ (l.pc = "catch" \/ Ended(l, "FAILED")) => ~l.uploaded
       /\ \A i \in 1..n :
            l.writes[i].status = "COMPLETED" =>
              /\ l.uploaded
              /\ IsSome(OutputRows(l))
              /\ l.writes[i].outputFileKey
  /\ \A j \in JobIds :
       jobs[j].status = "COMPLETED" =>
         /\ IsSome(jobs[j].outputFileKey)
         /\ IsSome(outputs[jobs[j].outputFileKey[1]])

\* C13 as stated: a job whose record is FAILED has no output object, and a
\* job whose record is COMPLETED carries the location of an output object
\* that exists.
C13_Original ==
  \A j \in JobIds :
    /\ jobs[j].status = "FAILED" =>
         \A k \in OutKeys : k[2] = j => ~IsSome(outputs[k])
    /\ jobs[j].status = "COMPLETED" =>
         /\ IsSome(jobs[j].outputFileKey)
         /\ IsSome(outputs[jobs[j].outputFileKey[1]])

\* Row i of run l makes the transformer throw.
RowThrows(l, i) == processRow(l.rows[i], l.jobStatus.settings, l.priceMap).threw
ThrownSoFar(l) == { i \in 1..Len(l.processedRows) : RowThrows(l, i) }

\* C14: a row on which the transformer throws is emitted with status "error"
\* and its base price, the error count goes up by one, the loop goes on to
\* the later rows, and the job is still reported COMPLETED with that count.
C14_RowErrorIsolated ==
  \A p \in Procs :
    LET l == proc[p] IN
    /\ Len(l.processedRows) <= Len(l.rows)
    /\ \A i \in 1..Len(l.processedRows) :
         IF RowThrows(l, i)
         THEN /\ l.processedRows[i].processingStatus = "error"
              /\ l.processedRows[i].calculatedPrice = l.rows[i].basePrice
              /\ l.processedRows[i].priceSource = "original"
              /\ l.processedRows[i].isbn = l.rows[i].isbn
              /\ l.processedRows[i].basePrice = l.rows[i].basePrice
         ELSE l.processedRows[i].processingStatus # "error"
    /\ l.errorCount = Cardinality(ThrownSoFar(l))
    /\ l.processedCount = Len(l.processedRows) - l.errorCount
    /\ l.pc = "rows" => Len(l.processedRows) = l.ri - 1
    /\ (l.resolved /\ l.pc \in {"catch", "setCompleted"}) =>
         Len(l.processedRows) = Len(l.rows)
    /\ (l.resolved /\ l.pc = "handler" /\ l.errorCount > 0 /\ ~l.uploaded) =>
         Len(l.processedRows) = Len(l.rows)
    /\ (Ended(l, "COMPLETED") /\ l.writes[Len(l.writes)].ok) =>
         /\ jobs[l.jobId].status = "COMPLETED"
         /\ jobs[l.jobId].errorCount = Some(l.errorCount)

\* A completed job whose first row threw and whose later row was processed.
C14_Witness ==
  \E p \in Procs :
    LET l == proc[p] IN
    /\ Ended(l, "COMPLETED")
    /\ Len(l.processedRows) >= 2
    /\ RowThrows(l, 1)
    /\ ~RowThrows(l, 2)
    /\ jobs[l.jobId].status = "COMPLETED"
    /\ jobs[l.jobId].errorCount = Some(1)

\* The transformer's one row, its result, and the inputs it ran on.
Transformed(l) == l.pc = "rows" /\ Len(l.rows) = 1 /\ Len(l.processedRows) = 1
InMap(l) == MapHas(l.priceMap, CleanIsbn(l.rows[1].isbn))
MapPrice(l) == l.priceMap[CleanIsbn(l.rows[1].isbn)]
BasePrice(l) == ParseFloat(l.rows[1].basePrice)
SettingsOf(l) == l.jobStatus.settings
AdjustmentOf(l) ==
  IF SettingsOf(l).hasAdjustment THEN SettingsOf(l).priceAdjustment ELSE 0

\* C15: when the PriceMap has the row's normalized ISBN and the row carries
\* a parsable base price, the output is computed from the PriceMap's price
\* with the resolved source; the base price is the candidate only when the
\* PriceMap has no entry.
C15_ResolvedWins ==
  \A p \in Procs :
    LET l == proc[p]
        out == l.processedRows[1]
    IN
    Transformed(l) =>
      /\ (InMap(l) /\ Truthy(BasePrice(l))) =>
           /\ out.processingStatus = "success"
           /\ out.priceSource = "isbndb_bulk"
           /\ ~SettingsOf(l).priceRounding =>
                out.calculatedPrice = ToFixed2(MapPrice(l) + AdjustmentOf(l))
      /\ (out.processingStatus = "success" /\ out.priceSource = "original") =>
           /\ ~InMap(l)
           /\ (~SettingsOf(l).priceRounding /\ ~BasePrice(l).inf) =>
                out.calculatedPrice = ToFixed2(BasePrice(l).c + AdjustmentOf(l))

\* A row with base price 16.01 whose ISBN the PriceMap resolves to 22.30,
\* written out as 22.30.
C15_Witness ==
  \E p \in Procs :
    LET l == proc[p] IN
    /\ Transformed(l)
    /\ InMap(l)
    /\ BasePrice(l) = Num(1601)
    /\ MapPrice(l) = 2230
    /\ l.processedRows[1].calculatedPrice = <<"2", "2", ".", "3", "0">>
    /\ l.processedRows[1].priceSource = "isbndb_bulk"

\* C16 as stated: for a row with outcome success, calculatedPrice is the
\* candidate price plus the adjustment, rounded up to the next whole unit
\* when priceRounding is set (a whole amount staying as it is), with two
\* decimals.
C16_Original ==
  \A p \in Procs :
    LET l == proc[p]
        out == l.processedRows[1]
        candidate == IF InMap(l) THEN MapPrice(l) ELSE BasePrice(l).c
        adjusted == candidate + AdjustmentOf(l)
    IN
    (Transformed(l) /\ out.processingStatus = "success") =>
      out.calculatedPrice =
        ToFixed2(IF SettingsOf(l).priceRounding THEN MathCeil(adjusted) ELSE adjusted)

\* The increments run l has performed: its calls whose ledger update
\* succeeded.
Increments(l) == Cardinality({ k \in 1..Len(l.calls) : l.calls[k].counted })
\* The processes whose number of performed increments grows in this step.
Incrementing == { p \in Procs : Increments(proc'[p]) = Increments(proc[p]) + 1 }

\* C17: with jobs running concurrently on the shared ledger no increment is
\* lost: every step raises the day's count by exactly the increments
\* performed in it and no step lowers it, so at any moment the count is the
\* initial count plus all the increments performed by all the jobs.
C17_NoLostIncrement ==
  [][\A d \in Days :
       /\ CallCount(ledger', d) =
            CallCount(ledger, d)
            + Cardinality({ p \in Incrementing : proc[p].today = d })
       /\ \A p \in Procs : Increments(proc'[p]) >= Increments(proc[p])]_vars

\* Two jobs that read the same count at admission, each performed an
\* increment while the other was running, and the count is up by both.
C17_Witness ==
  LET l1 == proc["h1"]
      l2 == proc["h2"]
  IN
  /\ l1.resolved /\ l2.resolved
  /\ l1.usageBefore = l2.usageBefore
  /\ Increments(l1) >= 1
  /\ Increments(l2) >= 1
  /\ CallCount(ledger, 0) = l1.usageBefore + Increments(l1) + Increments(l2)

\* C18: the batches of a job are dispatched one at a time in batch order:
\* a call is issued only from the head of the loop, for the batch that
\* follows the calls made so far, and only after every book of the previous
\* response has been put in the PriceMap; when resolution ends every batch
\* has been called once, in order.
C18_StrictSequence ==
  [][\A p \in Procs :
       LET l == proc[p]
           n == Len(l.calls)
       IN
       /\ Len(proc'[p].calls) = n + 1 =>
            /\ l.pc = "fetch"
            /\ l.bi = n + 1
            /\ proc'[p].calls[n + 1].isbns = l.batches[n + 1]
            /\ \A k \in 1..n : proc'[p].calls[k] = l.calls[k]
            /\ (n >= 1 /\ l.calls[n].status = "200") =>
                 /\ l.bk > Len(l.books)
                 /\ \A x \in l.calls[n].keys : MapHas(l.priceMap, x)
                 /\ \A b \in 1..Len(l.books) :
                      IsSome(extractPriceFromBook(l.books[b])) =>
                        CleanIsbn(BookIsbn(l.books[b])) \in l.calls[n].keys
       /\ (proc'[p].resolved /\ ~l.resolved) =>
            /\ Len(proc'[p].calls) = Len(l.batches)
            /\ \A k \in 1..Len(l.batches) : proc'[p].calls[k].isbns = l.batches[k]
       /\ Len(proc'[p].calls) <= n + 1]_vars

\* The second batch has just been called after the first one's book was
\* counted in the ledger and put in the PriceMap.
C18_Witness ==
  \E p \in Procs :
    LET l == proc[p] IN
    /\ Len(l.calls) = 2
    /\ Len(l.batches) = 2
    /\ l.calls[1].status = "200"
    /\ l.calls[1].counted
    /\ l.calls[1].keys # {}
    /\ l.calls[2].isbns = l.batches[2]
    /\ l.pc = "increment"

\* Probe i of run l returned a price: its ISBN was not left for the provider.
ProbeHit(l, i) == l.probes[i].isbn \notin Range(l.uncachedIsbns)

\* C19, reads: a probe returns a price only for an entry whose expiry lies
\* strictly after the time of the read, and an entry whose expiry has been
\* reached is treated as absent.
CacheReadsRespectExpiry ==
  \A p \in Procs :
    LET l == proc[p] IN
    \A i \in 1..Len(l.probes) :
      LET e == l.probes[i].entry IN
      /\ ProbeHit(l, i) => (IsSome(e) /\ l.probes[i].at < e[1].ttl)
      /\ (IsSome(e) /\ l.probes[i].at >= e[1].ttl) => ~ProbeHit(l, i)

\* C19, writes: a write that goes through replaces whatever the key held by
\* the book's price with an expiry of 7 days after the time of the write,
\* and touches no other key.
CacheWritesSetExpiry ==
  \A p \in Procs :
    LET l == proc[p]
        isbn == BookIsbn(l.books[l.bk])
        price == extractPriceFromBook(l.books[l.bk])[1]
    IN  (proc'[p].cacheWrites = l.cacheWrites + 1 /\ proc'[p].faults = l.faults) =>
          /\ isbn \in CacheKeys =>
               cache'[isbn] = <<[price |-> price, ttl |-> now + 7 * 24 * 60 * 60]>>
          /\ \A k \in CacheKeys \ {isbn} : cache'[k] = cache[k]

\* C19: a cache read returns a price only strictly before the entry's
\* expiry and treats an expired entry as absent; every cache write sets the
\* expiry to 7 days after the write and replaces the earlier entry of the key.
C19_CacheTtl == []CacheReadsRespectExpiry /\ [][CacheWritesSetExpiry]_vars

\* An expired entry was read as absent, its ISBN was fetched, and the write
\* at a later time replaced the entry with a fresh expiry.
C19_Witness ==
  \E p \in Procs :
    LET l == proc[p] IN
    /\ \E i \in 1..Len(l.probes) :
         /\ l.probes[i].isbn = B13
         /\ IsSome(l.probes[i].entry)
         /\ l.probes[i].at >= l.probes[i].entry[1].ttl
         /\ ~ProbeHit(l, i)
    /\ l.cacheWrites > 0
    /\ IsSome(cache[B13])
    /\ cache[B13][1].ttl = now + CACHE_TTL
    /\ now > 0

\* A cache operation of run l failed.
ReadFailed(l, i) == ~l.probes[i].ok
SomeReadFailed(l) == \E i \in 1..Len(l.probes) : ReadFailed(l, i)

\* C20 as stated: a run in which a cache operation failed ends as it would
\* over an empty, working cache, where every ISBN is a miss that goes to the
\* bulk lookup and every price of the PriceMap comes from the provider.
C20_Original ==
  \A p \in Procs :
    LET l == proc[p] IN
    (l.resolved /\ SomeReadFailed(l)) =>
      /\ \A i \in 1..Len(l.probes) : ~ProbeHit(l, i)
      /\ \A x \in CacheKeys :
           MapHas(l.priceMap, x) =>
             \E k \in 1..Len(l.calls) : x \in l.calls[k].keys

\* A step of p in which a cache read failed leaves the run where a miss
\* leaves it: the ISBN joins the uncached ones, nothing else moves.
FailedReadIsMiss(p) ==
  LET l == proc[p]
      m == proc'[p]
  IN  ( /\ Len(m.probes) = Len(l.probes) + 1
        /\ ~m.probes[Len(m.probes)].ok )
      => /\ m.uncachedIsbns = Append(l.uncachedIsbns, l.uniqueIsbns[l.ci])
         /\ m.priceMap = l.priceMap
         /\ m.ci = l.ci + 1
         /\ m.pc = l.pc
         /\ m.error = l.error
         /\ cache' = cache
         /\ jobs' = jobs

\* A step of p in which a cache write failed leaves the cache as it was and
\* the run where a write that went through leaves it, the price in the
\* PriceMap.
FailedWriteIsNoOp(p) ==
  LET l == proc[p]
      m == proc'[p]
      isbn == BookIsbn(l.books[l.bk])
      price == extractPriceFromBook(l.books[l.bk])[1]
  IN  (m.cacheWrites = l.cacheWrites + 1 /\ m.faults = l.faults + 1)
      => /\ cache' = cache
         /\ m.priceMap = MapSet(l.priceMap, CleanIsbn(isbn), price)
         /\ m.bk = l.bk + 1
         /\ m.pc = l.pc
         /\ m.error = l.error
         /\ jobs' = jobs

\* C20, amended: a failed cache read is treated as a miss, so that the ISBN
\* goes to the bulk lookup, and a failed cache write is a no-op that leaves
\* the price in the PriceMap; neither fails the job, which goes on as it
\* would with a working cache that holds no entry for the ISBNs whose read
\* failed, the other ISBNs being served from the cache as usual.
C20_CacheFailuresNonFatal ==
  /\ [](\A p \in Procs :
          LET l == proc[p] IN
          \A i \in 1..Len(l.probes) :
            ReadFailed(l, i) =>
              /\ ~ProbeHit(l, i)
              /\ (l.resolved /\ l.pc # "catch") => l.probes[i].isbn \in Requested(l))
  /\ [][\A p \in Procs : FailedReadIsMiss(p) /\ FailedWriteIsNoOp(p)]_vars

\* A job completed although the read of an unexpired entry failed: the ISBN
\* went to the provider.
C20_Witness ==
  \E p \in Procs :
    LET l == proc[p] IN
    /\ Ended(l, "COMPLETED")
    /\ \E i \in 1..Len(l.probes) :
         /\ ReadFailed(l, i)
         /\ ProbeValid(l, i)
         /\ l.probes[i].isbn \in Requested(l)
    /\ IsSome(OutputRows(l))

\* The deduplicated ISBNs of run l that have no unexpired entry in the cache.
Misses(l) ==
  { x \in Range(l.uniqueIsbns) : ~(x \in CacheKeys /\ ValidEntry(cache[x], now)) }

\* C21 as stated: the admission estimate counts only the cache misses, so a
\* job is rejected for the quota exactly when the usage plus
\* ceil(misses / BULK_SIZE) exceeds DAILY_LIMIT.
C21_Original ==
  \A p \in Procs :
    LET l == proc[p] IN
    (l.pc = "catch" /\ l.error = QuotaMessage) =>
      l.dailyUsage + EstimatedCalls(Cardinality(Misses(l))) > DAILY_LIMIT

\* A text of digits, a point and two digits, with an optional minus sign.
TwoDecimal(s) ==
  LET body == IF s # <<>> /\ s[1] = "-" THEN SubSeq(s, 2, Len(s)) ELSE s
      n == Len(body)
  IN  /\ n >= 4
      /\ body[n - 2] = "."
      /\ \A i \in (1..n) \ {n - 2} : body[i] \in Digit

PriceSources == {"isbndb_bulk", "original", "none"}
ProcessingStatuses == {"success", "no_isbn", "no_price_found", "error"}

\* C22 as stated: every emitted row has its source and its outcome in the
\* enumerations (isbndb_bulk is the resolved source); a success row has a
\* non-empty calculatedPrice with two decimals; and a row has the resolved
\* source only if its normalized ISBN is a key of the PriceMap.
C22_Original ==
  \A p \in Procs :
    LET l == proc[p] IN
    \A i \in 1..Len(l.processedRows) :
      LET out == l.processedRows[i] IN
      /\ out.priceSource \in PriceSources
      /\ out.processingStatus \in ProcessingStatuses
      /\ out.processingStatus = "success" => TwoDecimal(out.calculatedPrice)
      /\ out.priceSource = "isbndb_bulk" => MapHas(l.priceMap, CleanIsbn(out.isbn))

\* Run l is a retry: the previous record was for the same job, and its run
\* was aborted after it had dispatched batches.
Retry(l) ==
  /\ l.prev.has
  /\ l.prev.failed
  /\ l.prev.calls > 0
  /\ l.prev.jobId = l.jobId

\* C23 as stated, the retry: every ISBN that the aborted run cached is served
\* from the cache by the retry and not requested from the provider again.
C23_Original ==
  \A p \in Procs :
    LET l == proc[p] IN
    Retry(l) =>
      \A i \in 1..Len(l.probes) :
        l.probes[i].isbn \in l.prev.cached =>
          (ProbeHit(l, i) /\ l.probes[i].isbn \notin Requested(l))

\* The failure handling of a run that had dispatched batches leaves the
\* cache and the ledger as the run left them.
NoRollback ==
  \A p \in Procs :
    (proc[p].pc = "catch" /\ proc'[p].pc = "handler" /\ proc[p].calls # <<>>) =>
      (cache' = cache /\ ledger' = ledger)

\* C23, amended: the failure handling of an aborted job leaves the Price
\* Cache and the Quota Ledger unchanged, so the retry still finds the entry
\* of every ISBN the aborted run cached; it serves the ISBN from the cache,
\* without requesting it again, when its read of the entry succeeds before
\* the entry expires.
C23_NoRollback ==
  /\ [](\A p \in Procs :
          LET l == proc[p] IN
          Retry(l) =>
            \A i \in 1..Len(l.probes) :
              l.probes[i].isbn \in l.prev.cached =>
                /\ IsSome(l.probes[i].entry)
                /\ (l.probes[i].ok /\ l.probes[i].at < l.probes[i].entry[1].ttl) =>
                     (ProbeHit(l, i) /\ l.probes[i].isbn \notin Requested(l)))
  /\ [][NoRollback]_vars

\* A retry after an aborted run that had cached an ISBN: the retry resolved
\* it from the cache and made no provider call.
C23_Witness ==
  \E p \in Procs :
    LET l == proc[p] IN
    /\ Retry(l)
    /\ l.resolved
    /\ l.prev.cached # {}
    /\ \E i \in 1..Len(l.probes) :
         l.probes[i].isbn \in l.prev.cached /\ ProbeHit(l, i)
    /\ l.calls = <<>>
    /\ LedgerDelta(l) = 0

\* The settings of run l apply neither an adjustment nor rounding.
PlainSettings(l) == ~SettingsOf(l).priceRounding /\ AdjustmentOf(l) = 0

\* C24 as stated: the transformer's outcome is a total case split, in this
\* order: an empty normalized ISBN gives no_isbn; else an ISBN of the
\* PriceMap gives success with the mapped price; else a parsable base price
\* gives success with that price and the original source; else
\* no_price_found.  In the no_isbn and no_price_found cases calculatedPrice
\* is the row's base price text, the source is original, and nothing is
\* applied to the price.
C24_Original ==
  \A p \in Procs :
    LET l == proc[p]
        row == l.rows[1]
        out == l.processedRows[1]
    IN
    Transformed(l) =>
      IF CleanIsbn(row.isbn) = EmptyStr
      THEN /\ out.processingStatus = "no_isbn"
           /\ out.calculatedPrice = row.basePrice
           /\ out.priceSource = "original"
      ELSE IF InMap(l)
      THEN /\ out.processingStatus = "success"
           /\ out.priceSource = "isbndb_bulk"
           /\ PlainSettings(l) => out.calculatedPrice = ToFixed2(MapPrice(l))
      ELSE IF ~BasePrice(l).nan
      THEN /\ out.processingStatus = "success"
           /\ out.priceSource = "original"
           /\ (PlainSettings(l) /\ ~BasePrice(l).inf) =>
                out.calculatedPrice = ToFixed2(BasePrice(l).c)
      ELSE /\ out.processingStatus = "no_price_found"
           /\ out.calculatedPrice = row.basePrice
           /\ out.priceSource = "original"

\* The keys that the bulk lookups of run l added to its PriceMap.
BulkKeys(l) == UNION { l.calls[k].keys : k \in 1..Len(l.calls) }

\* C25 as stated: every key that a bulk lookup added to the PriceMap has a
\* Price Cache entry under the same key with the same price, so that a read
\* of the key is a hit while the entry is unexpired.
C25_Original ==
  \A p \in Procs :
    LET l == proc[p] IN
    \A x \in BulkKeys(l) :
      /\ x \in CacheKeys
      /\ ValidEntry(cache[x], now)
      /\ cache[x][1].price = l.priceMap[x]

\* A price field that is missing, non-numeric, zero or negative.
UnusablePrice(msrp) ==
  \/ msrp = EmptyStr
  \/ msrp[1] = "-"
  \/ ParseFloat(StripNonNumeric(msrp)).nan
  \/ ParseFloat(StripNonNumeric(msrp)).c = 0

\* The step in which run p handles the current book of its response.
HandlesBook(p) ==
  /\ proc[p].pc = "books"
  /\ proc[p].bk <= Len(proc[p].books)
  /\ proc'[p].bk = proc[p].bk + 1

\* C26 as stated: every price that a bulk lookup puts in the PriceMap and
\* every price in the Price Cache is strictly positive, and a returned item
\* whose price field is missing, non-numeric, zero or negative adds no
\* PriceMap entry and causes no cache write.
C26_Original ==
  /\ [](\A p \in Procs :
          /\ \A x \in BulkKeys(proc[p]) : proc[p].priceMap[x] > 0
          /\ \A k \in CacheKeys : IsSome(cache[k]) => cache[k][1].price > 0)
  /\ [][\A p \in Procs :
          (HandlesBook(p) /\ UnusablePrice(proc[p].books[proc[p].bk].msrp)) =>
            /\ proc'[p].priceMap = proc[p].priceMap
            /\ proc'[p].cacheWrites = proc[p].cacheWrites
            /\ cache' = cache]_vars

\* Call k of run l was answered: with books, or with 404.
Answered(l, k) == l.calls[k].status \in {"200", "404"}
\* The ISBNs requested in call k that no book of its response carries.
Omitted(l, k) == Range(l.calls[k].isbns) \ l.calls[k].returned
OmittedIsbns(l) == UNION { Omitted(l, k) : k \in { j \in 1..Len(l.calls) : Answered(l, j) } }

\* An answered call is no error: it is counted like any call that returned,
\* nothing is thrown, and the later batches are dispatched.
AnsweredIsNoError(l) ==
  /\ \A k \in 1..Len(l.calls) :
       (Answered(l, k) /\ l.faults = 0 /\ (k < Len(l.calls) \/ l.resolved)) =>
         l.calls[k].counted
  /\ l.calls # <<>> => NotAborted(l)
  /\ AllDispatched(l)

\* The rows of run l's output so far with this normalized ISBN, the rows
\* that threw aside, are priced from their base price or have no price.
PricedFromBase(l, x) ==
  \A i \in 1..Len(l.processedRows) :
    LET out == l.processedRows[i] IN
    (CleanIsbn(out.isbn) = x /\ out.processingStatus # "error") =>
      /\ out.priceSource = "original"
      /\ out.processingStatus \in {"success", "no_price_found"}

\* C27 as stated: a batch answered with 404, or a response that omits
\* requested ISBNs, is not an error; the omitted ISBNs are left out of the
\* PriceMap with no cache write, the loop goes on, and each row with such an
\* ISBN is priced from its base price or marked no_price_found.
C27_Original ==
  \A p \in Procs :
    LET l == proc[p] IN
    /\ AnsweredIsNoError(l)
    /\ l.resolved =>
         \A x \in OmittedIsbns(l) :
           /\ ~MapHas(l.priceMap, x)
           /\ x \notin l.cached
           /\ PricedFromBase(l, x)

\* C27, amended: a batch answered with 404, or a response that omits
\* requested ISBNs, is not an error and the loop goes on; an omitted ISBN
\* gets no PriceMap entry and no cache write from that response, so it is in
\* the PriceMap only if the response of another batch carried a priced book
\* under it; each row whose ISBN is not in the PriceMap is priced from its
\* base price or marked no_price_found.
C27_OmittedFallBack ==
  \A p \in Procs :
    LET l == proc[p] IN
    /\ AnsweredIsNoError(l)
    /\ l.resolved =>
         \A x \in OmittedIsbns(l) :
           /\ \A k \in 1..Len(l.calls) :
                (Answered(l, k) /\ x \in Omitted(l, k)) => x \notin l.calls[k].keys
           /\ MapHas(l.priceMap, x) =>
                \E k \in 1..Len(l.calls) : x \notin Omitted(l, k) /\ x \in l.calls[k].keys
           /\ x \in l.cached => MapHas(l.priceMap, x)
           /\ ~MapHas(l.priceMap, x) => PricedFromBase(l, x)

\* A job completed after a 404 for its first batch and an answer for its
\* second one; a row of the first batch was priced from its base price.
C27_Witness ==
  \E p \in Procs :
    LET l == proc[p] IN
    /\ Ended(l, "COMPLETED")
    /\ Len(l.calls) = 2
    /\ l.calls[1].status = "404"
    /\ l.calls[1].counted
    /\ l.calls[2].status = "200"
    /\ \E i \in 1..Len(l.processedRows) :
         /\ CleanIsbn(l.processedRows[i].isbn) \in Omitted(l, 1)
         /\ l.processedRows[i].priceSource = "original"
         /\ l.processedRows[i].processingStatus = "success"

\* The first row of run l whose normalized ISBN is x.
FirstRow(l, x) ==
  CHOOSE r \in 1..Len(l.rows) :
    /\ CleanIsbn(l.rows[r].isbn) = x
    /\ \A q \in 1..(r - 1) : CleanIsbn(l.rows[q].isbn) # x

\* The ISBN set of run l holds the rows' ISBNs without whitespace and
\* hyphens, those shorter than 10 characters aside, each once, in the order
\* of their first rows.
IsbnSetOfRows(l) ==
  LET u == l.uniqueIsbns IN
  /\ Range(u) = { x \in { CleanIsbn(l.rows[r].isbn) : r \in 1..Len(l.rows) } :
                    Len(x) >= 10 }
  /\ \A i \in 1..Len(u) : \A j \in 1..Len(u[i]) : u[i][j] \notin {"-", " "}
  /\ \A i, j \in 1..Len(u) : i < j => (u[i] # u[j] /\ FirstRow(l, u[i]) < FirstRow(l, u[j]))

\* Within one run no ISBN is requested from the provider more than once.
RunRequestsOnce ==
  \A p \in Procs :
    LET l == proc[p] IN
    /\ IsbnSetOfRows(l)
    /\ \A j, k \in 1..Len(l.calls) :
         j # k => Range(l.calls[j].isbns) \cap Range(l.calls[k].isbns) = {}
    /\ \A x \in Requested(l) : x \in Range(l.uniqueIsbns)

\* C28 as stated: the ISBN set handed to the resolver holds each row's ISBN
\* stripped of whitespace and hyphens, without duplicates, without ISBNs
\* shorter than 10 characters, in first-occurrence order; and no ISBN is
\* requested from the provider more than once in a job.
C28_Original ==
  \A p \in Procs :
    LET l == proc[p] IN
    /\ IsbnSetOfRows(l)
    /\ \A j, k \in 1..Len(l.calls) :
         j # k => Range(l.calls[j].isbns) \cap Range(l.calls[k].isbns) = {}
    /\ (l.prev.has /\ l.prev.jobId = l.jobId) =>
         Requested(l) \cap l.prev.requested = {}

\* The concatenation of the sequences of a sequence.
RECURSIVE Flatten(_)
Flatten(ss) == IF ss = <<>> THEN <<>> ELSE ss[1] \o Flatten(SubSeq(ss, 2, Len(ss)))

\* Run l has split its cache misses into batches.
Partitioned(l) == l.pc \in {"fetch", "increment", "books"} \/ (l.resolved /\ l.uncachedIsbns # <<>>)

\* The step of p that handles a book counts one cache write exactly when
\* the book has a usable price.
OneWritePerPricedBook(p) ==
  HandlesBook(p) =>
    proc'[p].cacheWrites =
      proc[p].cacheWrites
        + (IF IsSome(extractPriceFromBook(proc[p].books[proc[p].bk])) THEN 1 ELSE 0)

\* C29: the cache misses are split into batches in their order, every batch
\* with between 1 and BULK_SIZE ISBNs and every batch but the last with
\* exactly BULK_SIZE, every miss in exactly one batch; one provider call is
\* issued per batch, ceil(misses / BULK_SIZE) in all, and one cache write is
\* made per priced book returned.
C29_BatchPartition ==
  /\ [](\A p \in Procs :
          LET l == proc[p]
              m == Len(l.uncachedIsbns)
          IN
          /\ Partitioned(l) =>
               /\ Flatten(l.batches) = l.uncachedIsbns
               /\ \A i, j \in 1..m : i # j => l.uncachedIsbns[i] # l.uncachedIsbns[j]
               /\ \A i \in 1..Len(l.batches) :
                    /\ Len(l.batches[i]) >= 1
                    /\ Len(l.batches[i]) <= BULK_SIZE
                    /\ i < Len(l.batches) => Len(l.batches[i]) = BULK_SIZE
               /\ \A k \in 1..Len(l.calls) : l.calls[k].isbns = l.batches[k]
          /\ l.resolved =>
               /\ Len(l.calls) * BULK_SIZE >= m
               /\ Len(l.calls) * BULK_SIZE < m + BULK_SIZE)
  /\ [][\A p \in Procs : OneWritePerPricedBook(p)]_vars

\* Three misses resolved with two calls, the first for a full batch, and a
\* cache write for a priced book.
C29_Witness ==
  \E p \in Procs :
    LET l == proc[p] IN
    /\ l.resolved
    /\ Len(l.uncachedIsbns) = BULK_SIZE + 1
    /\ Len(l.calls) = 2
    /\ Len(l.calls[1].isbns) = BULK_SIZE
    /\ Len(l.calls[2].isbns) = 1
    /\ l.cacheWrites >= 1

\* The step in which run p handles one row, and whether it writes progress.
HandlesRow(p) == proc[p].pc = "rows" /\ proc'[p].ri = proc[p].ri + 1
WritesProgress(p) == Len(proc'[p].writes) = Len(proc[p].writes) + 1
\* The rows handled so far, successful or erroneous.
Handled(l) == l.ri - 1

\* A progress write that takes effect stores the current counts.
StoresCounts(p) ==
  (WritesProgress(p) /\ proc'[p].faults = proc[p].faults) =>
    /\ jobs'[proc[p].jobId].status = "PROCESSING"
    /\ jobs'[proc[p].jobId].processedRows = Some(proc'[p].processedCount)
    /\ jobs'[proc[p].jobId].errorCount = Some(proc'[p].errorCount)

\* The cadence of the code: progress is written after a row that succeeded
\* when the number of rows that succeeded reaches a multiple of
\* PROGRESS_EVERY.
CadenceByProcessedCount ==
  [][\A p \in Procs :
       HandlesRow(p) =>
         /\ WritesProgress(p) <=>
              /\ proc'[p].processedCount = proc[p].processedCount + 1
              /\ proc'[p].processedCount % PROGRESS_EVERY = 0
         /\ StoresCounts(p)]_vars

\* C30 as stated: the total row count is reported before any bulk lookup or
\* row transformation, and a progress update with the current processed
\* count and error count is written each time the number of rows handled so
\* far, successful or erroneous, reaches a multiple of PROGRESS_EVERY, and
\* at no other row.
C30_Original ==
  /\ [](\A p \in Procs :
          (proc[p].calls # <<>> \/ proc[p].probes # <<>> \/ Handled(proc[p]) > 0) =>
            Len(proc[p].writes) >= 2)
  /\ [][\A p \in Procs :
          HandlesRow(p) =>
            /\ WritesProgress(p) <=> Handled(proc'[p]) % PROGRESS_EVERY = 0
            /\ StoresCounts(p)]_vars

\* The usage a job reads at its admission check is the stored count of the
\* day, 0 when the day has no record (a read that fails aside).
ReadsStoredUsage ==
  \A p \in Procs :
    (proc[p].pc = "checkQuota" /\ proc'[p].pc # "checkQuota"
       /\ proc'[p].faults = proc[p].faults) =>
      proc'[p].dailyUsage = (IF IsSome(ledger[Day(now)]) THEN ledger[Day(now)][1] ELSE 0)

\* C31 as stated: usage for a day without a record reads as 0; the count of
\* a day never decreases; a new day starts from 0 without a reset; and every
\* increment goes to the day that is current when its provider call is made.
C31_Original ==
  [][/\ ReadsStoredUsage
     /\ \A d \in Days :
          /\ CallCount(ledger', d) >= CallCount(ledger, d)
          /\ CallCount(ledger', d) > CallCount(ledger, d) => d = Day(now)]_vars

\* The part of C31 that the code keeps: reads default to 0, counts never
\* decrease, and an increment goes to the day on which the job passed its
\* admission check.
LedgerMonotone ==
  [][/\ ReadsStoredUsage
     /\ \A d \in Days :
          /\ CallCount(ledger', d) >= CallCount(ledger, d)
          /\ CallCount(ledger', d) > CallCount(ledger, d) =>
               \E p \in Procs : proc[p].pc = "increment" /\ d = proc[p].today]_vars

\* The request carries settings with a boolean priceRounding and, if present,
\* a numeric priceAdjustment within [-1000, 1000].
SettingsAccepted(event) ==
  /\ event.body = "json"
  /\ event.json.type = "object"
  /\ event.json.settings.type = "object"
  /\ event.json.settings.priceRounding.type = "boolean"
  /\ LET a == event.json.settings.priceAdjustment IN
       \/ a.type = "undefined"
       \/ /\ a.type = "number"
          /\ ~a.n.nan /\ ~a.n.inf
          /\ a.n.c >= MIN_ADJUSTMENT /\ a.n.c <= MAX_ADJUSTMENT

\* Every job record is PENDING with an adjustment within the range, a record
\* is written once, and the upload URL is issued after the record.
RecordsGuarded ==
  /\ \A j \in JobIds :
       jobs[j].exists =>
         /\ jobs[j].status = "PENDING"
         /\ jobs[j].settings.defined
         /\ jobs[j].settings.priceAdjustment >= MIN_ADJUSTMENT
         /\ jobs[j].settings.priceAdjustment <= MAX_ADJUSTMENT
  /\ \A p \in Procs :
       /\ proc[p].created => SettingsAccepted(proc[p].event)
       /\ proc[p].uploadUrl => proc[p].created
CreatedOnce ==
  \A j \in JobIds : jobs[j].exists => jobs'[j] = jobs[j]

\* C32 as stated: a job record is created (PENDING, once per id, before the
\* upload URL is issued) only for a POST request with acceptable settings, so
\* every stored adjustment lies in [-1000, 1000]; any other POST request is
\* answered 400 and creates no record.
C32_Original ==
  /\ []RecordsGuarded
  /\ [][CreatedOnce]_vars
  /\ [](\A p \in Procs :
          LET l == proc[p] IN
          (l.pc = "done" /\ l.event.httpMethod = "POST"
             /\ ~SettingsAccepted(l.event)) =>
            l.statusCode = 400 /\ ~l.created)

\* What the code keeps of C32: the guard on the records, and a rejection
\* with 400, or with 500 when the body is not the JSON text of a value with
\* fields.
UploadGuard ==
  /\ []RecordsGuarded
  /\ [][CreatedOnce]_vars
  /\ [](\A p \in Procs :
          LET l == proc[p] IN
          (l.pc = "done" /\ l.event.httpMethod = "POST"
             /\ ~SettingsAccepted(l.event)) =>
            /\ ~l.created
            /\ l.statusCode =
                 (IF l.event.body = "malformed"
                     \/ (l.event.body = "json" /\ l.event.json.type = "null")
                    THEN 500 ELSE 400))

\* C33 as stated: with jobs running concurrently on the shared ledger, the
\* call count of a day never exceeds the daily limit.
C33_Original ==
  \A d \in Days : CallCount(ledger, d) <= DAILY_LIMIT

\* The ISBNs of the batch being answered that this book carries as its
\* 10-digit or its 13-digit identifier.
RequestedAs(l, book) ==
  { x \in Range(l.calls[Len(l.calls)].isbns) :
      x \in {CleanIsbn(book.isbn), CleanIsbn(book.isbn13)} }

\* C34 as stated: every requested ISBN for which the provider returns an item
\* with a usable price becomes a key of the PriceMap in the normalized form
\* of the rows, also when the rows carry the 10-digit form and the item
\* carries both identifiers, so that its rows get the looked-up price.
C34_Original ==
  [][\A p \in Procs :
       HandlesBook(p) =>
         LET l == proc[p]
             book == l.books[l.bk]
         IN  ~UnusablePrice(book.msrp) =>
               \A x \in RequestedAs(l, book) : MapHas(proc'[p].priceMap, x)]_vars

\* The key that the code gives the looked-up price: the item's 13-digit
\* identifier when it has one, else its 10-digit identifier.
KeyedByBookIsbn ==
  [][\A p \in Procs :
       HandlesBook(p) =>
         LET l == proc[p]
             book == l.books[l.bk]
         IN  (~UnusablePrice(book.msrp) /\ BookIsbn(book) # EmptyStr) =>
               MapHas(proc'[p].priceMap, CleanIsbn(BookIsbn(book)))]_vars

\* The processedRows value stored for a job never goes down.
ProgressNonDecreasing ==
  \A j \in JobIds :
    IsSome(jobs[j].processedRows) =>
      /\ IsSome(jobs'[j].processedRows)
      /\ jobs'[j].processedRows[1] >= jobs[j].processedRows[1]

\* A processedRows value that a run stores is at most the number of its rows.
ProgressBounded ==
  \A p \in Procs :
    LET j == proc[p].jobId IN
    (j # "" /\ jobs'[j].processedRows # jobs[j].processedRows) =>
      jobs'[j].processedRows[1] <= Len(proc[p].rows)

\* Run l has ended COMPLETED and every status write of the run took effect.
CompletedAndStored(l) ==
  /\ Ended(l, "COMPLETED")
  /\ \A i \in 1..Len(l.writes) : l.writes[i].ok

\* The counts of the record add up to the input rows.
CountsAddUp(l) ==
  LET item == jobs[l.jobId] IN
  /\ IsSome(item.processedRows) /\ IsSome(item.errorCount)
  /\ item.processedRows[1] + item.errorCount[1] = Len(l.rows)
  /\ IsSome(OutputRows(l))
  /\ Len(OutputRows(l)[1]) = Len(l.rows)

\* C35 as stated: the processedRows values written for a job are
\* non-decreasing and never exceed the number of input rows, and at COMPLETED
\* processedRows + errorCount equals the number of input rows, which equals
\* the reported totalRows and the number of output rows.
C35_Original ==
  /\ [][ProgressNonDecreasing /\ ProgressBounded]_vars
  /\ [](\A p \in Procs :
          LET l == proc[p] IN
          CompletedAndStored(l) =>
            /\ CountsAddUp(l)
            /\ jobs[l.jobId].totalRows = Some(Len(l.rows)))

\* What holds of one run: its progress values are bounded by its rows and at
\* COMPLETED the counts add up to the input rows and the output rows; the
\* total is reported when the file has at least one row.
RunAccounting ==
  /\ [][ProgressBounded]_vars
  /\ [](\A p \in Procs :
          LET l == proc[p] IN
          CompletedAndStored(l) =>
            /\ CountsAddUp(l)
            /\ Len(l.rows) > 0 => jobs[l.jobId].totalRows = Some(Len(l.rows)))

\* C36 as stated: for every row with outcome success, every strictly
\* positive candidate price and every adjustment in [-1000, 1000], with or
\* without rounding, the emitted calculatedPrice is not negative.
C36_Original ==
  \A p \in Procs :
    LET l == proc[p] IN
    \A i \in 1..Len(l.processedRows) :
      LET out == l.processedRows[i] IN
      (out.processingStatus = "success"
         /\ AdjustmentOf(l) >= MIN_ADJUSTMENT /\ AdjustmentOf(l) <= MAX_ADJUSTMENT) =>
        /\ out.calculatedPrice # EmptyStr
        /\ out.calculatedPrice[1] # "-"

\* Run p passes its admission check in this step.
Admits(p) == proc[p].pc = "checkQuota" /\ proc'[p].pc = "probe"

\* C37 as stated: a job is never admitted while the stored count of the day
\* plus its estimated calls exceeds the daily limit, also when the read of
\* the usage fails.
C37_Original ==
  [][\A p \in Procs :
       Admits(p) =>
         CallCount(ledger, Day(now)) + EstimatedCalls(Len(proc[p].uniqueIsbns))
           <= DAILY_LIMIT]_vars

\* The admission test on the count that the read returned: the stored count,
\* or 0 when the read failed.
AdmissionOnReadCount ==
  [][\A p \in Procs :
       (proc[p].pc = "checkQuota" /\ proc'[p].pc # "checkQuota") =>
         /\ proc'[p].dailyUsage \in {0, CallCount(ledger, Day(now))}
         /\ Admits(p) <=>
              proc'[p].dailyUsage + EstimatedCalls(Len(proc[p].uniqueIsbns))
                <= DAILY_LIMIT
         /\ proc'[p].faults = proc[p].faults =>
              proc'[p].dailyUsage = CallCount(ledger, Day(now))]_vars

\* The invocation has left the loop over its records.
Returned(l) == l.pc = "handler" /\ l.idx > Len(l.Records) /\ l.Records # <<>>

\* C38 as stated: when a handler invocation has ended, the record of each of
\* its jobs is COMPLETED or FAILED, never left at PROCESSING, whatever
\* operations failed.
C38_Original ==
  \A p \in Procs :
    LET l == proc[p] IN
    Returned(l) =>
      \A i \in 1..Len(l.Records) :
        LET item == jobs[l.Records[i][2]] IN
        item.exists => item.status \in Terminal

\* Without a failed status write: the record of each job of an ended
\* invocation is terminal when the last status write of the run took effect.
TerminalUnlessWriteFails ==
  \A p \in Procs :
    LET l == proc[p] IN
    (l.pc = "handler" /\ l.jobId # "" /\ l.writes[Len(l.writes)].ok) =>
      jobs[l.jobId].status \in Terminal

\* Run p's catch block runs in this step.
Fails(p) == proc[p].pc = "catch" /\ proc'[p].pc # "catch"

\* The records are taken one at a time, in order: a run begins only from the
\* head of the loop, for the record that follows the one just handled.
InRecordOrder(p) ==
  LET l == proc[p]
      n == proc'[p]
  IN
  /\ n.Records = l.Records
  /\ n.idx \in {l.idx, l.idx + 1}
  /\ n.idx = l.idx + 1 => l.pc \in {"setCompleted", "catch"} /\ n.pc = "handler"
  /\ n.jobId # l.jobId =>
       /\ l.pc = "handler"
       /\ n.pc = "getJobStatus"
       /\ n.idx = l.idx
       /\ n.jobId = l.Records[l.idx][2]

\* A failure touches the record of the failing run's job at most, marks it
\* FAILED when the write takes effect, and moves on to the next record.
FailureIsolated(p) ==
  Fails(p) =>
    /\ \A j \in JobIds \ {proc[p].jobId} : jobs'[j] = jobs[j]
    /\ jobs'[proc[p].jobId] # jobs[proc[p].jobId] =>
         jobs'[proc[p].jobId].status = "FAILED"
    /\ proc'[p].pc = "handler"
    /\ proc'[p].idx = proc[p].idx + 1

\* C39: the records of an event are processed one after another in record
\* order; a failure while processing one marks only that file's job FAILED,
\* changes the status of no other job, and the loop goes on to every later
\* record.
C39_RecordIsolation ==
  /\ [][\A p \in Procs : InRecordOrder(p) /\ FailureIsolated(p)]_vars
  /\ [](\A p \in Procs :
          (proc[p].pc = "handler" /\ proc[p].idx <= Len(proc[p].Records)) =>
            ENABLED HandlerNext(p))

\* An event of two records: the first failed, the second was processed
\* afterwards and completed, and the first job's record is still FAILED.
C39_Witness ==
  \E p \in Procs :
    LET l == proc[p] IN
    /\ Len(l.Records) = 2
    /\ Returned(l)
    /\ l.Records[1][2] # l.Records[2][2]
    /\ jobs[l.Records[1][2]].status = "FAILED"
    /\ Ended(l, "COMPLETED")
    /\ jobs[l.Records[2][2]].status = "COMPLETED"

\* The polling has ended, with a status or with the timeout error.
PollEnded(l) == l.pc \in {"returned", "thrown"}

\* What holds of a polling at every moment: the requests are bounded by
\* maxAttempts, the callback has run once per fetched status, the delay is
\* within its cap, a terminal status is returned as soon as it is fetched,
\* and the timeout is raised only with the attempts used up.
PollBounded ==
  \A p \in Procs :
    LET l == proc[p] IN
    /\ l.requests <= l.maxAttempts
    /\ l.callbacks = l.fetched
    /\ l.requests = l.fetched + l.failures
    /\ l.delay <= MAX_DELAY /\ l.waited <= MAX_DELAY
    /\ l.terminals = (IF l.pc = "returned" THEN 1 ELSE 0)
    /\ l.pc = "returned" => l.returned \in Terminal /\ l.returned = l.status
    /\ l.pc = "thrown" => l.attempt = l.maxAttempts /\ l.requests = l.maxAttempts

\* A request that failed counts as one attempt and the polling goes on; an
\* ended polling issues nothing more.
PollCounts ==
  \A p \in Procs :
    LET l == proc[p] IN
    /\ (l.pc = "catch" /\ proc'[p] # l) =>
         /\ proc'[p].attempt = l.attempt + 1
         /\ proc'[p].delay = l.delay
         /\ proc'[p].pc = "while"
    /\ proc'[p].requests > l.requests => proc'[p].requests = l.attempt + 1
    /\ PollEnded(l) => proc'[p] = l

\* C40: pollJobStatus always ends; it issues at most maxAttempts requests,
\* returns the first terminal status it fetches without polling again,
\* counts a failed request as one attempt and keeps polling, calls the
\* progress callback once per fetched status, keeps the delay at most
\* 5,000 ms, and raises the timeout error when maxAttempts is reached
\* without a terminal status.
C40_PollTerminates ==
  /\ []PollBounded
  /\ [][PollCounts]_vars
  /\ \A p \in Procs : <>PollEnded(proc[p])

\* A polling that returned a terminal status after a failed request, with
\* the delay grown to its cap.
C40_Witness ==
  \E p \in Procs :
    LET l == proc[p] IN
    /\ l.pc = "returned"
    /\ l.failures >= 1
    /\ l.delay = MAX_DELAY
    /\ l.requests < l.maxAttempts

====
